---------------------------- MODULE Spec2Model ----------------------------
(***************************************************************************)
(* A model of the simulation engine of metakg (src/src/metakg/simulate.py) *)
(* over the store interface it consumes (src/src/metakg/store.py).         *)
(*                                                                         *)
(* Numbers.  Python floats are modelled by exact rationals <<n, d>> in     *)
(* lowest terms with d > 0; the pair <<0, 0>> stands for Python's None in  *)
(* a place that holds "float | None".  Rounding is not modelled.           *)
(*                                                                         *)
(* Objects.  Every mutable container a SimulationConfig or a               *)
(* WhatIfScenario refers to (a dict or a list) lives in `heap` at an       *)
(* address; the objects hold addresses, so that sharing a container and    *)
(* copying it are different things, as they are in Python.                 *)
(*                                                                         *)
(* Libraries.  scipy's linprog and solve_ivp are modelled by what their    *)
(* callers rely on: linprog returns a minimiser of the linear programme,   *)
(* solve_ivp refuses a max_step that is not positive and otherwise returns *)
(* one sample per point of t_eval.  Configs have t_points >= 1: what       *)
(* solve_ivp does with an empty t_eval depends on the scipy release.       *)
(***************************************************************************)
EXTENDS Integers, Sequences, FiniteSets, TLC

(***************************************************************************)
(* Rational arithmetic                                                     *)
(***************************************************************************)
Abs(x) == IF x < 0 THEN -x ELSE x

RECURSIVE Gcd(_, _)
Gcd(a, b) == IF b = 0 THEN a ELSE Gcd(b, a % b)

Norm(n, d) ==
  LET s == IF d < 0 THEN -1 ELSE 1
      g == Gcd(Abs(n), Abs(d))
  IN  <<(s * n) \div g, (s * d) \div g>>

R(n) == <<n, 1>>

None == <<0, 0>>

IsNone(x) == x[2] = 0

RAdd(x, y) == Norm(x[1] * y[2] + y[1] * x[2], x[2] * y[2])

RNeg(x) == <<-x[1], x[2]>>

RSub(x, y) == RAdd(x, RNeg(y))

RMul(x, y) == Norm(x[1] * y[1], x[2] * y[2])

\* x / y for y # 0
RDiv(x, y) == Norm(x[1] * y[2], x[2] * y[1])

RLe(x, y) == x[1] * y[2] <= y[1] * x[2]

RLt(x, y) == x[1] * y[2] < y[1] * x[2]

RMax(x, y) == IF RLe(x, y) THEN y ELSE x

\* Python truthiness of a "float | None": None and 0.0 are falsy
Truthy(x) == ~IsNone(x) /\ x[1] # 0

\* Python's `x or y`
OrElse(x, y) == IF Truthy(x) THEN x ELSE y

(***************************************************************************)
(* Sequences and dicts                                                     *)
(***************************************************************************)
Range(s) == {s[i] : i \in DOMAIN s}

\* Body applied to the value of v, which is computed once (a local variable)
With(v, Body(_)) == CHOOSE r \in {Body(x) : x \in {v}} : TRUE

RECURSIVE SeqSum(_)
SeqSum(s) == IF s = <<>> THEN R(0) ELSE RAdd(Head(s), SeqSum(Tail(s)))

\* numpy.mean of a non-empty list
Mean(s) == RDiv(SeqSum(s), R(Len(s)))

EmptyDict == <<>>

\* d[k] = v
DictSet(d, k, v) == [x \in (DOMAIN d) \cup {k} |-> IF x = k THEN v ELSE d[x]]

\* d.get(k, default)
DictGet(d, k, default) == IF k \in DOMAIN d THEN d[k] ELSE default

\* The index of the last occurrence of x in s: what {r: j for j, r in enumerate(s)}
\* keeps for a key that occurs more than once
LastIndex(s, x) == CHOOSE j \in DOMAIN s : s[j] = x /\ \A k \in DOMAIN s : s[k] = x => k <= j

\* list.index(x): the index of the first occurrence
FirstIndex(s, x) == CHOOSE j \in DOMAIN s : s[j] = x /\ \A k \in DOMAIN s : s[k] = x => j <= k

(***************************************************************************)
(* Strings.  TLA+ has no string operations, so the three the code uses     *)
(* (str.lower, str.split(":", 1), sorted) are tables over the identifiers  *)
(* of the model.                                                           *)
(***************************************************************************)
NoId == "<None>"

\* str.lower()
Lower(s) ==
  CASE s = "Glycolysis" -> "glycolysis"
    [] s = "Hexokinase" -> "hexokinase"
    [] s = "True" -> "true"
    [] OTHER -> s

\* <<has a colon, text before the first colon, text after it>>
SplitColon(s) ==
  CASE s = "kegg:hsa00010" -> <<TRUE, "kegg", "hsa00010">>
    [] s = "EC:2.7.1.1" -> <<TRUE, "EC", "2.7.1.1">>
    [] s = "pwy:P0" -> <<TRUE, "pwy", "P0">>
    [] s = "pwy:P1" -> <<TRUE, "pwy", "P1">>
    [] s = "pwy:none" -> <<TRUE, "pwy", "none">>
    [] s = "enz:E1" -> <<TRUE, "enz", "E1">>
    [] s = "enz:E2" -> <<TRUE, "enz", "E2">>
    [] s = "enz:E3" -> <<TRUE, "enz", "E3">>
    [] s = "enz:none" -> <<TRUE, "enz", "none">>
    [] s = "rxn:R1" -> <<TRUE, "rxn", "R1">>
    [] OTHER -> <<FALSE, s, "">>

LowerDb(s) == IF s = "EC" THEN "ec" ELSE s

\* The identifiers that become rows of S, in Python's string order
IdOrder ==
  << "cpd:A", "cpd:ADP", "cpd:ATP", "cpd:B", "cpd:C", "cpd:G6P", "cpd:Glucose",
     "cpd:Pyruvate", "rxn:R1", "rxn:R2", "rxn:R3" >>

\* sorted(keys)
Sorted(keys) == SelectSeq(IdOrder, LAMBDA x : x \in keys)

(***************************************************************************)
(* JSON blobs of the store, parsed as the simulator parses them            *)
(***************************************************************************)
NullBlob == "NULL"

\* json.loads(blob): <<parsed, direction or "" when the key is absent>>
LoadsDirection(blob) ==
  CASE blob = "{\"direction\": \"irreversible\"}" -> <<TRUE, "irreversible">>
    [] blob = "{\"direction\": \"reversible\"}" -> <<TRUE, "reversible">>
    [] blob = "{\"direction\": \"forward\"}" -> <<TRUE, "forward">>
    [] blob = "{\"substrates\": []}" -> <<TRUE, "">>
    [] OTHER -> <<FALSE, "">>

\* json.loads(evidence): <<parsed, has "stoich", its value>>
LoadsStoich(evidence) ==
  CASE evidence = "{\"stoich\": 2.0}" -> <<TRUE, TRUE, 2>>
    [] evidence = "{\"stoich\": 1.0}" -> <<TRUE, TRUE, 1>>
    [] evidence = "{}" -> <<TRUE, FALSE, 0>>
    [] OTHER -> <<FALSE, FALSE, 0>>

(***************************************************************************)
(* The store: the tables meta_nodes, meta_edges, xref_index and            *)
(* kinetic_parameters, each in row order                                   *)
(***************************************************************************)
Node(id, kind, name, blob) == [id |-> id, kind |-> kind, name |-> name, stoichiometry |-> blob]

Edge(src, rel, dst, evidence) == [src |-> src, rel |-> rel, dst |-> dst, evidence |-> evidence]

Xref(db, ext, node) == [db_name |-> db, ext_id |-> ext, node_id |-> node]

KRow(rxn, sub, vmax, km, keq) ==
  [reaction_id |-> rxn, substrate_id |-> sub, vmax |-> vmax, km |-> km,
   equilibrium_constant |-> keq]

\* A -> 2 B (R1), 2 B -> A (R2), B -> C with B also a product (R3)
Topology ==
  << Edge("cpd:A", "SUBSTRATE_OF", "rxn:R1", NullBlob),
     Edge("rxn:R1", "PRODUCT_OF", "cpd:B", "{\"stoich\": 2.0}"),
     Edge("cpd:B", "SUBSTRATE_OF", "rxn:R2", "{\"stoich\": 2.0}"),
     Edge("rxn:R2", "PRODUCT_OF", "cpd:A", "{}"),
     Edge("cpd:B", "SUBSTRATE_OF", "rxn:R3", "{\"stoich\": 2.0}"),
     Edge("rxn:R3", "PRODUCT_OF", "cpd:B", "{\"stoich\": 1.0}"),
     Edge("rxn:R3", "PRODUCT_OF", "cpd:C", "not json"),
     Edge("cpd:C", "INHIBITS", "rxn:R1", NullBlob),
     Edge("enz:E1", "CATALYZES", "rxn:R1", NullBlob),
     Edge("enz:E2", "CATALYZES", "rxn:R1", NullBlob),
     Edge("enz:E2", "CATALYZES", "rxn:R2", NullBlob),
     Edge("enz:E3", "CATALYZES", "rxn:R3", NullBlob),
     Edge("pwy:P1", "CONTAINS", "cpd:A", NullBlob),
     Edge("pwy:P1", "CONTAINS", "rxn:R1", NullBlob),
     Edge("pwy:P1", "CONTAINS", "rxn:R2", NullBlob) >>

OtherNodes ==
  << Node("cpd:A", "compound", "A", NullBlob),
     Node("cpd:B", "compound", "B", NullBlob),
     Node("cpd:C", "compound", "C", NullBlob),
     Node("enz:E1", "enzyme", "Hexokinase", NullBlob),
     Node("enz:E2", "enzyme", "E2", NullBlob),
     Node("enz:E3", "enzyme", "E3", NullBlob),
     Node("pwy:P1", "pathway", "Glycolysis", NullBlob),
     Node("pwy:P0", "pathway", "P0", NullBlob) >>

Xrefs == {Xref("kegg", "hsa00010", "pwy:P1"), Xref("ec", "2.7.1.1", "enz:E1")}

\* directions as the KGML parser writes them; no kinetic rows
StoreA ==
  [nodes |-> << Node("rxn:R1", "reaction", "R1", "{\"direction\": \"irreversible\"}"),
                Node("rxn:R2", "reaction", "R2", "{\"direction\": \"reversible\"}"),
                Node("rxn:R3", "reaction", "R3", NullBlob) >> \o OtherNodes,
   edges |-> Topology,
   xref |-> Xrefs,
   kinetics |-> <<>>]

\* other blobs, and kinetic rows for R1 and R2
StoreB ==
  [nodes |-> << Node("rxn:R1", "reaction", "R1", "{\"direction\": \"forward\"}"),
                Node("rxn:R2", "reaction", "R2", "{\"substrates\": []}"),
                Node("rxn:R3", "reaction", "R3", "not json") >> \o OtherNodes,
   edges |-> Topology,
   xref |-> Xrefs,
   kinetics |-> << KRow("rxn:R1", NoId, R(2), R(1), None),
                   KRow("rxn:R1", "cpd:A", R(4), <<1, 4>>, R(2)),
                   KRow("rxn:R2", NoId, None, None, None) >>]

\* The two-reaction pathway Glucose + ATP -> G6P + ADP (R1), G6P -> Pyruvate (R2),
\* both irreversible
StoreG ==
  [nodes |-> << Node("rxn:R1", "reaction", "Hexokinase", "{\"direction\": \"irreversible\"}"),
                Node("rxn:R2", "reaction", "R2", "{\"direction\": \"irreversible\"}"),
                Node("cpd:Glucose", "compound", "D-Glucose", NullBlob),
                Node("cpd:ATP", "compound", "ATP", NullBlob),
                Node("cpd:G6P", "compound", "Glucose-6-phosphate", NullBlob),
                Node("cpd:ADP", "compound", "ADP", NullBlob),
                Node("cpd:Pyruvate", "compound", "Pyruvate", NullBlob),
                Node("enz:E1", "enzyme", "Hexokinase", NullBlob),
                Node("enz:E2", "enzyme", "E2", NullBlob),
                Node("pwy:P1", "pathway", "Glycolysis", NullBlob) >>,
   edges |-> << Edge("cpd:Glucose", "SUBSTRATE_OF", "rxn:R1", NullBlob),
                Edge("cpd:ATP", "SUBSTRATE_OF", "rxn:R1", NullBlob),
                Edge("rxn:R1", "PRODUCT_OF", "cpd:G6P", NullBlob),
                Edge("rxn:R1", "PRODUCT_OF", "cpd:ADP", NullBlob),
                Edge("cpd:G6P", "SUBSTRATE_OF", "rxn:R2", NullBlob),
                Edge("rxn:R2", "PRODUCT_OF", "cpd:Pyruvate", NullBlob),
                Edge("enz:E1", "CATALYZES", "rxn:R1", NullBlob),
                Edge("enz:E2", "CATALYZES", "rxn:R2", NullBlob),
                Edge("pwy:P1", "CONTAINS", "rxn:R1", NullBlob),
                Edge("pwy:P1", "CONTAINS", "rxn:R2", NullBlob) >>,
   xref |-> Xrefs,
   kinetics |-> <<>>]

\* A chain A -> B -> C -> D (R1, R2, R3) with the shortcut A -> D (R4) stored
\* after it, and D -> E (R5)
StoreP ==
  [nodes |-> << Node("cpd:A", "compound", "A", NullBlob),
                Node("cpd:B", "compound", "B", NullBlob),
                Node("cpd:C", "compound", "C", NullBlob),
                Node("cpd:D", "compound", "D", NullBlob),
                Node("cpd:E", "compound", "E", NullBlob),
                Node("rxn:R1", "reaction", "R1", NullBlob),
                Node("rxn:R2", "reaction", "R2", NullBlob),
                Node("rxn:R3", "reaction", "R3", NullBlob),
                Node("rxn:R4", "reaction", "R4", NullBlob),
                Node("rxn:R5", "reaction", "R5", NullBlob),
                Node("pwy:P1", "pathway", "Glycolysis", NullBlob) >>,
   edges |-> << Edge("cpd:A", "SUBSTRATE_OF", "rxn:R1", NullBlob),
                Edge("rxn:R1", "PRODUCT_OF", "cpd:B", NullBlob),
                Edge("cpd:B", "SUBSTRATE_OF", "rxn:R2", NullBlob),
                Edge("rxn:R2", "PRODUCT_OF", "cpd:C", NullBlob),
                Edge("cpd:C", "SUBSTRATE_OF", "rxn:R3", NullBlob),
                Edge("rxn:R3", "PRODUCT_OF", "cpd:D", NullBlob),
                Edge("cpd:A", "SUBSTRATE_OF", "rxn:R4", NullBlob),
                Edge("rxn:R4", "PRODUCT_OF", "cpd:D", NullBlob),
                Edge("cpd:D", "SUBSTRATE_OF", "rxn:R5", NullBlob),
                Edge("rxn:R5", "PRODUCT_OF", "cpd:E", NullBlob),
                Edge("pwy:P1", "CONTAINS", "rxn:R1", NullBlob),
                Edge("pwy:P1", "CONTAINS", "rxn:R4", NullBlob) >>,
   xref |-> Xrefs,
   kinetics |-> <<>>]

\* A source reaction -> A (R1, no substrate edge) and A -> B (R2), both
\* irreversible, and a reaction without compound edges (R3); the kinetic rows
\* of R2 give A its own Km
StoreS ==
  [nodes |-> << Node("rxn:R1", "reaction", "R1", "{\"direction\": \"irreversible\"}"),
                Node("rxn:R2", "reaction", "R2", "{\"direction\": \"irreversible\"}"),
                Node("rxn:R3", "reaction", "R3", NullBlob),
                Node("cpd:A", "compound", "A", NullBlob),
                Node("cpd:B", "compound", "B", NullBlob),
                Node("enz:E1", "enzyme", "Hexokinase", NullBlob),
                Node("enz:E2", "enzyme", "E2", NullBlob),
                Node("pwy:P1", "pathway", "Glycolysis", NullBlob) >>,
   edges |-> << Edge("rxn:R1", "PRODUCT_OF", "cpd:A", NullBlob),
                Edge("cpd:A", "SUBSTRATE_OF", "rxn:R2", NullBlob),
                Edge("rxn:R2", "PRODUCT_OF", "cpd:B", NullBlob),
                Edge("enz:E1", "CATALYZES", "rxn:R1", NullBlob),
                Edge("enz:E2", "CATALYZES", "rxn:R2", NullBlob),
                Edge("pwy:P1", "CONTAINS", "rxn:R1", NullBlob),
                Edge("pwy:P1", "CONTAINS", "rxn:R2", NullBlob),
                Edge("pwy:P1", "CONTAINS", "rxn:R3", NullBlob),
                Edge("enz:E2", "CATALYZES", "rxn:R3", NullBlob) >>,
   xref |-> Xrefs,
   kinetics |-> << KRow("rxn:R2", "cpd:A", None, R(2), None),
                   KRow("rxn:R2", "cpd:A", R(3), None, None),
                   KRow("rxn:R2", NoId, None, R(4), None) >>]

EmptyStore == [nodes |-> <<>>, edges |-> <<>>, xref |-> {}, kinetics |-> <<>>]

Stores == {EmptyStore, StoreA, StoreB, StoreG}

(***************************************************************************)
(* Store queries (st is the store's content)                               *)
(***************************************************************************)
HasNode(st, id) == \E i \in DOMAIN st.nodes : st.nodes[i].id = id

\* MetaStore.node, for an id that has a row
node(st, id) == st.nodes[CHOOSE i \in DOMAIN st.nodes : st.nodes[i].id = id]

\* MetaStore.node_by_xref: the node's id, or NoId
node_by_xref(st, db_name, ext_id) ==
  LET rows == {x \in st.xref : x.db_name = LowerDb(db_name) /\ x.ext_id = ext_id}
  IN  IF rows = {} THEN NoId
      ELSE LET nid == (CHOOSE x \in rows : TRUE).node_id
           IN  IF HasNode(st, nid) THEN nid ELSE NoId

\* MetaStore.resolve_id: the internal id, or NoId
resolve_id(st, user_id) ==
  IF HasNode(st, user_id) THEN user_id
  ELSE LET parts == SplitColon(user_id)
           byXref == IF parts[1] THEN node_by_xref(st, parts[2], parts[3]) ELSE NoId
           byName == SelectSeq(st.nodes, LAMBDA n : Lower(n.name) = Lower(user_id))
       IN  IF byXref # NoId THEN byXref
           ELSE IF byName # <<>> THEN byName[1].id
           ELSE NoId

\* MetaStore.edges_of
edges_of(st, node_id) == SelectSeq(st.edges, LAMBDA e : e.src = node_id \/ e.dst = node_id)

\* MetaStore.all_nodes(kind=...)
all_nodes(st, kind) == SelectSeq(st.nodes, LAMBDA n : n.kind = kind)

\* MetaStore.edges_within
edges_within(st, node_ids) ==
  IF node_ids = {} THEN <<>>
  ELSE SelectSeq(st.edges, LAMBDA e : e.src \in node_ids /\ e.dst \in node_ids)

(***************************************************************************)
(* MetaStore.find_shortest_path                                            *)
(***************************************************************************)
\* One column of the rows of a query
Column(rows, col) == [i \in DOMAIN rows |-> rows[i][col]]

\* _fwd_neighbours: from a compound the reactions it is a substrate of, from a
\* reaction its products
fwd_neighbours(st, nid) ==
  IF ~HasNode(st, nid) THEN <<>>
  ELSE IF node(st, nid).kind = "compound"
  THEN Column(SelectSeq(st.edges, LAMBDA e : e.src = nid /\ e.rel = "SUBSTRATE_OF"), "dst")
  ELSE IF node(st, nid).kind = "reaction"
  THEN Column(SelectSeq(st.edges, LAMBDA e : e.src = nid /\ e.rel = "PRODUCT_OF"), "dst")
  ELSE <<>>

\* _bwd_neighbours: from a compound the reactions that produce it, from a
\* reaction its substrates
bwd_neighbours(st, nid) ==
  IF ~HasNode(st, nid) THEN <<>>
  ELSE IF node(st, nid).kind = "compound"
  THEN Column(SelectSeq(st.edges, LAMBDA e : e.dst = nid /\ e.rel = "PRODUCT_OF"), "src")
  ELSE IF node(st, nid).kind = "reaction"
  THEN Column(SelectSeq(st.edges, LAMBDA e : e.dst = nid /\ e.rel = "SUBSTRATE_OF"), "src")
  ELSE <<>>

\* The <<nid, nb>> pairs one expansion visits, in order: for each nid popped
\* from the queue, each of its neighbours
RECURSIVE Visits(_, _, _)
Visits(st, queue, forward) ==
  IF queue = <<>> THEN <<>>
  ELSE LET nid == Head(queue)
           nbs == IF forward THEN fwd_neighbours(st, nid) ELSE bwd_neighbours(st, nid)
       IN  [i \in DOMAIN nbs |-> <<nid, nbs[i]>>] \o Visits(st, Tail(queue), forward)

\* One expansion (the forward and the backward loop have the same body):
\* mine is the predecessor map it extends, other the opposite one, next the
\* queue it builds; it stops at the first neighbour the other side has seen
RECURSIVE Expand(_, _, _, _, _)
Expand(visits, i, mine, other, next) ==
  IF i > Len(visits) THEN [met |-> FALSE, meet |-> NoId, visited |-> mine, next |-> next]
  ELSE LET nid == visits[i][1]
           nb == visits[i][2]
           new == nb \notin DOMAIN mine
           mine1 == IF new THEN (nb :> nid) @@ mine ELSE mine
           next1 == IF new THEN Append(next, nb) ELSE next
       IN  IF nb \in DOMAIN other
           THEN [met |-> TRUE, meet |-> nb, visited |-> mine1, next |-> next1]
           ELSE Expand(visits, i + 1, mine1, other, next1)

\* The ids from cur along the predecessor map, until None
RECURSIVE Chain(_, _)
Chain(pred, cur) == IF cur = NoId THEN <<>> ELSE <<cur>> \o Chain(pred, pred[cur])

\* list.reverse()
Reversed(s) == [i \in DOMAIN s |-> s[Len(s) + 1 - i]]

\* The two chains joined without turning the forward one around
reconstruct_unreversed(fwd, bwd, meet) == Chain(fwd, meet) \o Chain(bwd, bwd[meet])

\* _reconstruct
reconstruct(fwd, bwd, meet) == Reversed(Chain(fwd, meet)) \o Chain(bwd, bwd[meet])

\* The dict returned once the two searches meet
PathFound(st, path_ids) ==
  LET present == SelectSeq(path_ids, LAMBDA pid : HasNode(st, pid))
      path_nodes == [i \in DOMAIN present |-> node(st, present[i])]
      rxn_count == Len(SelectSeq(path_nodes, LAMBDA n : n.kind = "reaction"))
  IN  [path |-> path_nodes, hops |-> rxn_count, edges |-> edges_within(st, Range(path_ids))]

NoPathFound(max_hops) == [error |-> "no path found", searched_hops |-> max_hops]

\* for hop in range(max_hops * 2 + 2): expand forward, expand backward
RECURSIVE Search(_, _, _, _, _, _, _)
Search(st, max_hops, hop, fwd, bwd, fwd_queue, bwd_queue) ==
  IF hop >= max_hops * 2 + 2 THEN NoPathFound(max_hops)
  ELSE
  With(Expand(Visits(st, fwd_queue, TRUE), 1, fwd, bwd, <<>>), LAMBDA f :
    IF f.met THEN PathFound(st, reconstruct(f.visited, bwd, f.meet))
    ELSE
    With(Expand(Visits(st, bwd_queue, FALSE), 1, bwd, f.visited, <<>>), LAMBDA b :
      IF b.met THEN PathFound(st, reconstruct(f.visited, b.visited, b.meet))
      ELSE IF f.next = <<>> /\ b.next = <<>> THEN NoPathFound(max_hops)
      ELSE Search(st, max_hops, hop + 1, f.visited, b.visited, f.next, b.next)))

\* MetaStore.find_shortest_path
find_shortest_path(st, from_id, to_id, max_hops) ==
  IF from_id = to_id
  THEN [path |-> IF HasNode(st, from_id) THEN <<node(st, from_id)>> ELSE <<>>,
        hops |-> 0, edges |-> <<>>]
  ELSE Search(st, max_hops, 0, (from_id :> NoId), (to_id :> NoId), <<from_id>>, <<to_id>>)

\* MetaStore.kinetic_params_for_reaction: the rows stored for the reaction
kinetic_params_for_reaction(st, rxn_id) ==
  SelectSeq(st.kinetics, LAMBDA r : r.reaction_id = rxn_id)

\* [f(x) for x in s]
SeqMap(s, f(_)) == [i \in DOMAIN s |-> f(s[i])]

\* MetabolicSimulator._reactions_for_pathway
reactions_for_pathway(st, pathway_id) ==
  LET pwy_id == resolve_id(st, pathway_id)
  IN  IF pwy_id = NoId THEN <<>>
      ELSE SeqMap(SelectSeq(edges_of(st, pwy_id),
                            LAMBDA e : /\ e.rel = "CONTAINS"
                                       /\ e.src = pwy_id
                                       /\ HasNode(st, e.dst)
                                       /\ node(st, e.dst).kind = "reaction"),
                  LAMBDA e : e.dst)

\* MetabolicSimulator._reactions_for_enzyme
reactions_for_enzyme(st, enzyme_id) ==
  LET enz_id == resolve_id(st, enzyme_id)
  IN  IF enz_id = NoId THEN <<>>
      ELSE SeqMap(SelectSeq(edges_of(st, enz_id),
                            LAMBDA e : e.rel = "CATALYZES" /\ e.src = enz_id),
                  LAMBDA e : e.dst)

(***************************************************************************)
(* SimulationConfig objects.  The fields reaction_ids,                     *)
(* initial_concentrations, flux_bounds, vmax_overrides and vmax_factors    *)
(* hold heap addresses; reaction_ids = 0 is Python's None.                 *)
(***************************************************************************)
\* `if config.reaction_ids:` : neither None nor empty
HasReactionIds(h, cfg) == cfg.reaction_ids # 0 /\ h[cfg.reaction_ids] # <<>>

\* A scope that falls back to every reaction of the store when the pathway
\* yields none
ScopeWithFallback(st, h, cfg) ==
  IF HasReactionIds(h, cfg) THEN h[cfg.reaction_ids]
  ELSE IF cfg.pathway_id # NoId /\ cfg.pathway_id # ""
          /\ reactions_for_pathway(st, cfg.pathway_id) # <<>>
       THEN reactions_for_pathway(st, cfg.pathway_id)
  ELSE SeqMap(all_nodes(st, "reaction"), LAMBDA n : n.id)

\* The reactions in scope, in column order (_build_stoich_matrix, first part)
ScopeRxnIds(st, h, cfg) ==
  IF HasReactionIds(h, cfg) THEN h[cfg.reaction_ids]
  ELSE IF cfg.pathway_id # NoId /\ cfg.pathway_id # ""
       THEN reactions_for_pathway(st, cfg.pathway_id)
  ELSE SeqMap(all_nodes(st, "reaction"), LAMBDA n : n.id)

\* A reading of the blob that takes a reaction for irreversible unless it says
\* "reversible"
IrreversibleUnlessMarked(blob) ==
  IF blob = NullBlob \/ blob = "" THEN FALSE
  ELSE LET js == LoadsDirection(blob)
       IN  js[1] /\ js[2] = "reversible"

\* Reversibility from the stoichiometry blob
Reversible(blob) ==
  IF blob = NullBlob \/ blob = "" THEN TRUE
  ELSE LET js == LoadsDirection(blob)
       IN  IF ~js[1] THEN TRUE
           ELSE (IF js[2] = "" THEN "reversible" ELSE js[2]) # "irreversible"

\* float(ev.get("stoich", 1.0)) of an edge
StoichVal(edge) ==
  LET ev == IF edge.evidence = NullBlob \/ edge.evidence = ""
            THEN <<FALSE, FALSE, 0>> ELSE LoadsStoich(edge.evidence)
  IN  IF ev[1] /\ ev[2] THEN ev[3] ELSE 1

\* stoich_map.setdefault(cpd, {})[rxn] = stoich_map.get(cpd, {}).get(rxn, 0.0) + delta
Bump(sm, cpd_id, rxn_id, delta) ==
  LET row == DictGet(sm, cpd_id, EmptyDict)
  IN  DictSet(sm, cpd_id, DictSet(row, rxn_id, DictGet(row, rxn_id, 0) + delta))

\* The loop over the edges of one reaction
RECURSIVE AccEdges(_, _, _)
AccEdges(edges, rxn_id, sm) ==
  IF edges = <<>> THEN sm
  ELSE LET e == Head(edges)
           sm1 == IF e.rel = "SUBSTRATE_OF" /\ e.dst = rxn_id
                  THEN Bump(sm, e.src, rxn_id, -StoichVal(e))
                  ELSE IF e.rel = "PRODUCT_OF" /\ e.src = rxn_id
                  THEN Bump(sm, e.dst, rxn_id, StoichVal(e))
                  ELSE sm
       IN  AccEdges(Tail(edges), rxn_id, sm1)

\* The loop over rxn_ids: acc = [sm |-> stoich_map, rev |-> rev_flags]
RECURSIVE AccRxns(_, _, _)
AccRxns(st, rxn_ids, acc) ==
  IF rxn_ids = <<>> THEN acc
  ELSE LET rxn_id == Head(rxn_ids)
       IN  IF ~HasNode(st, rxn_id) THEN AccRxns(st, Tail(rxn_ids), acc)
           ELSE AccRxns(st, Tail(rxn_ids),
                  [sm |-> AccEdges(edges_of(st, rxn_id), rxn_id, acc.sm),
                   rev |-> DictSet(acc.rev, rxn_id,
                                   Reversible(node(st, rxn_id).stoichiometry))])

\* A matrix that balances only the compounds more than one reaction touches,
\* the others being taken for exchanged with the outside
MatrixOfInternalRows(sm, cpd_ids, rxn_ids) ==
  [i \in DOMAIN cpd_ids |->
     [j \in DOMAIN rxn_ids |->
        IF rxn_ids[j] \in DOMAIN sm[cpd_ids[i]] /\ LastIndex(rxn_ids, rxn_ids[j]) = j
           /\ Cardinality(DOMAIN sm[cpd_ids[i]]) > 1
        THEN sm[cpd_ids[i]][rxn_ids[j]]
        ELSE 0]]

\* The dense matrix: each stored coefficient goes to the column rxn_index gives
MatrixOf(sm, cpd_ids, rxn_ids) ==
  [i \in DOMAIN cpd_ids |->
     [j \in DOMAIN rxn_ids |->
        IF rxn_ids[j] \in DOMAIN sm[cpd_ids[i]] /\ LastIndex(rxn_ids, rxn_ids[j]) = j
        THEN sm[cpd_ids[i]][rxn_ids[j]]
        ELSE 0]]

\* MetabolicSimulator._build_stoich_matrix: (rxn_ids, cpd_ids, S, rev_flags)
build_stoich_matrix(st, h, cfg) ==
  LET rxn_ids == ScopeRxnIds(st, h, cfg)
  IN  IF rxn_ids = <<>>
      THEN [rxn_ids |-> <<>>, cpd_ids |-> <<>>, S |-> <<>>, rev_flags |-> EmptyDict]
      ELSE With(AccRxns(st, rxn_ids, [sm |-> EmptyDict, rev |-> EmptyDict]),
                LAMBDA acc :
                  [rxn_ids |-> rxn_ids,
                   cpd_ids |-> Sorted(DOMAIN acc.sm),
                   S |-> MatrixOf(acc.sm, Sorted(DOMAIN acc.sm), rxn_ids),
                   rev_flags |-> acc.rev])

(***************************************************************************)
(* scipy.optimize.linprog(c, A_eq=S, b_eq=0, bounds), by its contract: a   *)
(* point of {v : S v = 0, lb <= v <= ub} that minimises c.v, or status 2   *)
(* when that set is empty.  The same inputs give the same point (CHOOSE).  *)
(* Candidate coordinates are 0 and the bounds in play: the mass balances   *)
(* of the networks modelled here have the forms v_i = v_j and v_i = 0, so  *)
(* each vertex of the feasible polytope has such coordinates.  The search  *)
(* runs on integers: the bounds times the common denominator Scale.        *)
(***************************************************************************)
Lcm(a, b) == (a * b) \div Gcd(a, b)

RECURSIVE LcmDen(_)
LcmDen(bounds) ==
  IF bounds = <<>> THEN 1
  ELSE Lcm(Lcm(Head(bounds)[1][2], Head(bounds)[2][2]), LcmDen(Tail(bounds)))

ToInt(x, scale) == x[1] * (scale \div x[2])

RECURSIVE Dot(_, _, _)
Dot(a, v, n) == IF n = 0 THEN 0 ELSE a[n] * v[n] + Dot(a, v, n - 1)

LpFeasible(S, lb, ub, n) ==
  LET grid == {0} \cup {lb[j] : j \in 1..n} \cup {ub[j] : j \in 1..n}
  IN  {v \in [1..n -> grid] :
         /\ \A j \in 1..n : lb[j] <= v[j] /\ v[j] <= ub[j]
         /\ \A i \in DOMAIN S : Dot(S[i], v, n) = 0}

\* c = cnum / cden; the result's x and fun are rationals again
linprog(cnum, cden, S, bounds) ==
  LET n == Len(bounds)
      scale == LcmDen(bounds)
      lb == [j \in 1..n |-> ToInt(bounds[j][1], scale)]
      ub == [j \in 1..n |-> ToInt(bounds[j][2], scale)]
  IN  With(LpFeasible(S, lb, ub, n), LAMBDA feasible :
        IF feasible = {}
        THEN [status |-> 2, x |-> <<>>, fun |-> None, marginals |-> <<>>]
        ELSE With(CHOOSE v \in feasible :
                    \A w \in feasible : Dot(cnum, v, n) <= Dot(cnum, w, n),
                  LAMBDA x :
                    [status |-> 0,
                     x |-> [j \in 1..n |-> Norm(x[j], scale)],
                     fun |-> Norm(Dot(cnum, x, n), cden * scale),
                     \* the dual values: a function of the programme, not computed
                     marginals |-> [i \in DOMAIN S |->
                                      <<"marginal", i, cnum, cden, S, bounds>>]]))

(***************************************************************************)
(* run_fba                                                                 *)
(***************************************************************************)
DEFAULT_FLUX_CAP == 1000

\* The reaction flux bounds, one pair per column
FluxBounds(h, cfg, rxn_ids, rev_flags) ==
  [j \in DOMAIN rxn_ids |->
     IF rxn_ids[j] \in DOMAIN h[cfg.flux_bounds] THEN h[cfg.flux_bounds][rxn_ids[j]]
     ELSE IF DictGet(rev_flags, rxn_ids[j], TRUE)
          THEN <<R(-DEFAULT_FLUX_CAP), R(DEFAULT_FLUX_CAP)>>
     ELSE <<R(0), R(DEFAULT_FLUX_CAP)>>]

\* The objective vector as numerators over the denominator ObjectiveDen
ObjectiveNum(cfg, rxn_ids, bounds) ==
  IF cfg.objective_reaction # NoId /\ cfg.objective_reaction # ""
     /\ cfg.objective_reaction \in Range(rxn_ids)
  THEN [j \in DOMAIN rxn_ids |->
          IF j = FirstIndex(rxn_ids, cfg.objective_reaction)
          THEN (IF cfg.maximize THEN -1 ELSE 1) ELSE 0]
  ELSE [j \in DOMAIN rxn_ids |->
          IF RLe(R(0), bounds[j][1]) THEN (IF cfg.maximize THEN -1 ELSE 1) ELSE 0]

ObjectiveDen(cfg, rxn_ids) ==
  IF cfg.objective_reaction # NoId /\ cfg.objective_reaction # ""
     /\ cfg.objective_reaction \in Range(rxn_ids)
  THEN 1 ELSE Len(rxn_ids)

FBAResult(status, objective_value, fluxes, shadow_prices, message) ==
  [status |-> status, objective_value |-> objective_value, fluxes |-> fluxes,
   shadow_prices |-> shadow_prices, message |-> message]

\* What a run leaves behind for the properties: its result, the exception it
\* raised ("" for none) and the intermediate values it computed
RunRecord(result, raised, trace) == [result |-> result, raised |-> raised, trace |-> trace]

NoTrace ==
  [rxn_ids |-> <<>>, cpd_ids |-> <<>>, S |-> <<>>, rev_flags |-> EmptyDict,
   bounds |-> <<>>, objective |-> <<>>, specs |-> <<>>, solver_calls |-> 0,
   solver |-> <<>>]

\* run_fba once the linear programme is solved
FbaOutcome(cfg, m, bounds, res) ==
  LET rxn_ids == m.rxn_ids
      cpd_ids == m.cpd_ids
      trace == [rxn_ids |-> rxn_ids, cpd_ids |-> cpd_ids, S |-> m.S,
                rev_flags |-> m.rev_flags, bounds |-> bounds,
                objective |-> <<ObjectiveNum(cfg, rxn_ids, bounds), ObjectiveDen(cfg, rxn_ids)>>,
                specs |-> <<>>, solver_calls |-> 1, solver |-> <<>>]
  IN  IF res.status = 0
      THEN LET obj_val == IF cfg.maximize THEN RNeg(res.fun) ELSE res.fun
               sign == IF cfg.maximize THEN -1 ELSE 1
           IN  RunRecord(
                 FBAResult("optimal", obj_val,
                           [r \in Range(rxn_ids) |-> res.x[LastIndex(rxn_ids, r)]],
                           [c \in Range(cpd_ids) |->
                              <<sign, res.marginals[LastIndex(cpd_ids, c)]>>],
                           <<"Optimal. Objective = ", obj_val>>),
                 "", trace)
      ELSE RunRecord(
             FBAResult(IF res.status = 2 THEN "infeasible"
                       ELSE IF res.status = 3 THEN "unbounded" ELSE "error",
                       None, EmptyDict, EmptyDict, <<"linprog message", R(res.status)>>),
             "", trace)

\* MetabolicSimulator.run_fba
run_fba(st, h, cfg, scipy) ==
  IF ~scipy
  THEN RunRecord(FBAResult("error", None, EmptyDict, EmptyDict,
                           <<"scipy is required for FBA.  Install it: pip install scipy", None>>),
                 "", NoTrace)
  ELSE
  With(build_stoich_matrix(st, h, cfg), LAMBDA m :
    IF m.rxn_ids = <<>>
    THEN RunRecord(FBAResult("error", None, EmptyDict, EmptyDict,
                             <<"No reactions found for the given configuration.", None>>),
                   "", NoTrace)
    ELSE
    With(FluxBounds(h, cfg, m.rxn_ids, m.rev_flags), LAMBDA bounds :
      With(linprog(ObjectiveNum(cfg, m.rxn_ids, bounds), ObjectiveDen(cfg, m.rxn_ids),
                   m.S, bounds),
           LAMBDA res : FbaOutcome(cfg, m, bounds, res))))

(***************************************************************************)
(* Kinetic parameters                                                      *)
(***************************************************************************)
DEFAULT_VMAX == R(1)

DEFAULT_KM == <<1, 2>>

DEFAULT_KEQ == R(1)

\* [row[field] for row in rows if row[field] is not None]
RECURSIVE Collect(_, _)
Collect(rows, field) ==
  IF rows = <<>> THEN <<>>
  ELSE (IF IsNone(Head(rows)[field]) THEN <<>> ELSE <<Head(rows)[field]>>)
       \o Collect(Tail(rows), field)

MeanOrNone(vals) == IF vals = <<>> THEN None ELSE Mean(vals)

\* km_by_sub[row["substrate_id"]] = row["km"], row after row
RECURSIVE KmBySub(_, _)
KmBySub(rows, acc) ==
  IF rows = <<>> THEN acc
  ELSE KmBySub(Tail(rows),
               IF Head(rows).substrate_id # NoId /\ Head(rows).substrate_id # ""
                  /\ ~IsNone(Head(rows).km)
               THEN DictSet(acc, Head(rows).substrate_id, Head(rows).km)
               ELSE acc)

\* The entry the first loop of _build_kinetic_params gives a reaction
StoredParams(st, rxn_id) ==
  LET rows == kinetic_params_for_reaction(st, rxn_id)
  IN  IF rows # <<>>
      THEN [vmax |-> MeanOrNone(Collect(rows, "vmax")),
            km |-> MeanOrNone(Collect(rows, "km")),
            equilibrium_constant |-> MeanOrNone(Collect(rows, "equilibrium_constant")),
            km_by_substrate |-> KmBySub(rows, EmptyDict)]
      ELSE [vmax |-> DEFAULT_VMAX, km |-> DEFAULT_KM,
            equilibrium_constant |-> DEFAULT_KEQ, km_by_substrate |-> EmptyDict]

\* MetabolicSimulator._build_kinetic_params: the overrides, then the factors
build_kinetic_params(st, h, cfg, rxn_ids) ==
  LET overrides == h[cfg.vmax_overrides]
      factors == h[cfg.vmax_factors]
  IN  With([r \in Range(rxn_ids) |-> StoredParams(st, r)], LAMBDA stored :
        With([r \in Range(rxn_ids) |->
                IF r \in DOMAIN overrides
                THEN [stored[r] EXCEPT !.vmax = overrides[r]] ELSE stored[r]],
             LAMBDA overridden :
               [r \in Range(rxn_ids) |->
                  IF r \in DOMAIN factors
                  THEN [overridden[r] EXCEPT
                          !.vmax = RMul(OrElse(overridden[r].vmax, DEFAULT_VMAX), factors[r])]
                  ELSE overridden[r]]))

(***************************************************************************)
(* run_ode                                                                 *)
(***************************************************************************)
\* The pre-built reaction spec of column j
RxnSpec(m, kparams, j) ==
  LET rxn_id == m.rxn_ids[j]
      kp == kparams[rxn_id]
      rows == SelectSeq([i \in DOMAIN m.cpd_ids |-> i], LAMBDA i : TRUE)
  IN  [substrates |-> SeqMap(SelectSeq(rows, LAMBDA i : m.S[i][j] < 0),
                             LAMBDA i : <<i, R(-m.S[i][j])>>),
       products |-> SeqMap(SelectSeq(rows, LAMBDA i : m.S[i][j] > 0),
                           LAMBDA i : <<i, R(m.S[i][j])>>),
       vmax |-> OrElse(kp.vmax, DEFAULT_VMAX),
       km_default |-> OrElse(kp.km, DEFAULT_KM),
       km_by_sub |-> kp.km_by_substrate,
       reversible |-> DictGet(m.rev_flags, rxn_id, TRUE),
       keq |-> OrElse(kp.equilibrium_constant, DEFAULT_KEQ)]

\* v *= conc / denom if denom > 0 else 0.0, over the (index, stoich) pairs
RECURSIVE Saturation(_, _, _, _, _, _)
Saturation(v, pairs, y, cpd_ids, spec, kscale) ==
  IF pairs = <<>> THEN v
  ELSE LET idx == Head(pairs)[1]
           conc == y[idx]
           km == RMul(DictGet(spec.km_by_sub, cpd_ids[idx], spec.km_default), kscale)
           denom == RAdd(km, conc)
       IN  Saturation(RMul(v, IF RLt(R(0), denom) THEN RDiv(conc, denom) ELSE R(0)),
                      Tail(pairs), y, cpd_ids, spec, kscale)

\* max(keq, 1e-12): every positive rational of the model exceeds 1e-12, and the
\* floor itself is written with the largest power of ten a 32-bit integer holds
KEQ_FLOOR == <<1, 1000000000>>

\* The forward loop with the reaction's Km for every substrate
forward_rate_reaction_km(spec, y, cpd_ids) ==
  Saturation(spec.vmax, spec.substrates, y, cpd_ids, [spec EXCEPT !.km_by_sub = EmptyDict], R(1))

\* v_fwd = vmax, then the loop over the substrates
forward_rate(spec, y, cpd_ids) ==
  Saturation(spec.vmax, spec.substrates, y, cpd_ids, spec, R(1))

\* The rate law with the reverse term whatever the direction of the reaction
mm_rate_haldane(spec, y, cpd_ids) ==
  IF spec.substrates = <<>> THEN R(0)
  ELSE RSub(forward_rate(spec, y, cpd_ids),
            Saturation(RDiv(spec.vmax, RMax(spec.keq, KEQ_FLOOR)), spec.products, y, cpd_ids,
                       spec, RMax(spec.keq, KEQ_FLOOR)))

\* _mm_rate
mm_rate(spec, y, cpd_ids) ==
  IF spec.substrates = <<>> THEN R(0)
  ELSE LET v_fwd == forward_rate(spec, y, cpd_ids)
       IN  IF ~spec.reversible THEN RMax(R(0), v_fwd)
           ELSE IF spec.products = <<>> THEN v_fwd
           ELSE LET keq == RMax(spec.keq, KEQ_FLOOR)
                IN  RSub(v_fwd,
                         Saturation(RDiv(spec.vmax, keq), spec.products, y, cpd_ids, spec, keq))

\* dy[idx] -= stoich * v for the substrates, += for the products, spec after spec
RECURSIVE Contribution(_, _)
Contribution(pairs, idx) ==
  IF pairs = <<>> THEN R(0)
  ELSE RAdd(IF Head(pairs)[1] = idx THEN Head(pairs)[2] ELSE R(0),
            Contribution(Tail(pairs), idx))

RECURSIVE SumRates(_, _, _, _)
SumRates(specs, yc, cpd_ids, idx) ==
  IF specs = <<>> THEN R(0)
  ELSE LET v == mm_rate(Head(specs), yc, cpd_ids)
       IN  RAdd(RMul(RSub(Contribution(Head(specs).products, idx),
                          Contribution(Head(specs).substrates, idx)), v),
                SumRates(Tail(specs), yc, cpd_ids, idx))

\* _dydt
dydt(specs, y, cpd_ids) ==
  LET yc == [i \in DOMAIN y |-> RMax(y[i], R(0))]
  IN  [i \in DOMAIN y |-> SumRates(specs, yc, cpd_ids, i)]

\* scipy.integrate.solve_ivp(_dydt, (0, t_end), y0, t_eval, max_step=t_end/50), by
\* its contract: it raises when max_step is not positive; otherwise it returns one
\* sample per point of t_eval and compound.  A sample is a function of the
\* problem handed over and is not computed: it is the term naming the problem.
solve_ivp(specs, cpd_ids, y0, t_end, t_eval) ==
  IF RLe(RDiv(t_end, R(50)), R(0))
  THEN [raised |-> TRUE, success |-> FALSE, t |-> <<>>, y |-> <<>>]
  ELSE With([specs |-> specs, y0 |-> y0, t_eval |-> t_eval], LAMBDA problem :
         [raised |-> FALSE, success |-> TRUE, t |-> problem.t_eval,
          y |-> [i \in DOMAIN problem.y0 |->
                   [k \in DOMAIN problem.t_eval |->
                      [sample |-> k, of |-> i, problem |-> problem]]]])

ODEResult(status, t, concentrations, message) ==
  [status |-> status, t |-> t, concentrations |-> concentrations, message |-> message]

\* The method, tolerances and step cap run_ode hands to solve_ivp
SolveIvpOptions(cfg) ==
  [method |-> "RK45", rtol |-> <<1, 10000>>, atol |-> <<1, 1000000>>,
   max_step |-> RDiv(cfg.t_end, R(50))]

\* run_ode from the reaction specs on: y0, t_eval, the integration, the result
OdeOutcome(h, cfg, m, specs) ==
  LET cpd_ids == m.cpd_ids
      y0 == [i \in DOMAIN cpd_ids |->
               DictGet(h[cfg.initial_concentrations], cpd_ids[i], cfg.default_concentration)]
      trace == [rxn_ids |-> m.rxn_ids, cpd_ids |-> cpd_ids, S |-> m.S,
                rev_flags |-> m.rev_flags, bounds |-> <<>>, objective |-> <<>>,
                specs |-> specs, solver_calls |-> 0, solver |-> <<>>]
      called == [trace EXCEPT !.solver_calls = 1, !.solver = SolveIvpOptions(cfg)]
  IN  \* t_eval divides by t_points - 1, outside the try block
      IF cfg.t_points >= 1 /\ cfg.t_points - 1 = 0
      THEN RunRecord(ODEResult("", <<>>, EmptyDict, <<"", None>>), "ZeroDivisionError", trace)
      ELSE
      With(solve_ivp(specs, cpd_ids, y0, cfg.t_end,
                     [i \in 1..cfg.t_points |->
                        RDiv(RMul(cfg.t_end, R(i - 1)), R(cfg.t_points - 1))]),
           LAMBDA sol :
             IF sol.raised
             THEN RunRecord(ODEResult("error", <<>>, EmptyDict, <<"ODE solver raised: ", None>>),
                            "", called)
             ELSE IF ~sol.success
             THEN RunRecord(ODEResult("failed", <<>>, EmptyDict,
                                      <<"ODE solver did not converge: ", None>>),
                            "", called)
             ELSE RunRecord(
                    ODEResult("ok", sol.t,
                              [c \in Range(cpd_ids) |-> sol.y[LastIndex(cpd_ids, c)]],
                              <<"Integration OK.", R(Len(sol.t))>>),
                    "", called))

\* MetabolicSimulator.run_ode
run_ode(st, h, cfg, scipy) ==
  IF ~scipy
  THEN RunRecord(ODEResult("error", <<>>, EmptyDict,
                           <<"scipy is required for ODE.  Install it: pip install scipy", None>>),
                 "", NoTrace)
  ELSE
  With(build_stoich_matrix(st, h, cfg), LAMBDA m :
    IF m.rxn_ids = <<>>
    THEN RunRecord(ODEResult("error", <<>>, EmptyDict,
                             <<"No reactions found for the given configuration.", None>>),
                   "", NoTrace)
    ELSE
    With(build_kinetic_params(st, h, cfg, m.rxn_ids), LAMBDA kparams :
      With([j \in DOMAIN m.rxn_ids |-> RxnSpec(m, kparams, j)],
           LAMBDA specs : OdeOutcome(h, cfg, m, specs))))

(***************************************************************************)
(* The what-if engine.  A WhatIfScenario holds the heap addresses of its   *)
(* enzyme_knockouts list, of its enzyme_factors dict (a sequence of        *)
(* <<enzyme, factor>> pairs in insertion order) and of its                 *)
(* initial_conc_overrides dict.                                            *)
(***************************************************************************)
\* copy.copy(config): a new object that holds the same containers
shallow_copy(h, config) == [heap |-> h, cfg |-> config]

\* One container copied to a fresh address; None stays None
CopyContainer(h, addr) ==
  IF addr = 0 THEN [heap |-> h, addr |-> 0]
  ELSE [heap |-> Append(h, h[addr]), addr |-> Len(h) + 1]

\* copy.deepcopy(config)
deepcopy(h, config) ==
  LET r == CopyContainer(h, config.reaction_ids)
      ic == CopyContainer(r.heap, config.initial_concentrations)
      fb == CopyContainer(ic.heap, config.flux_bounds)
      vo == CopyContainer(fb.heap, config.vmax_overrides)
      vf == CopyContainer(vo.heap, config.vmax_factors)
  IN  [heap |-> vf.heap,
       cfg |-> [config EXCEPT !.reaction_ids = r.addr,
                              !.initial_concentrations = ic.addr,
                              !.flux_bounds = fb.addr,
                              !.vmax_overrides = vo.addr,
                              !.vmax_factors = vf.addr]]

\* The reactions the knockout loop visits, in order
RECURSIVE KnockoutTargets(_, _)
KnockoutTargets(st, knockouts) ==
  IF knockouts = <<>> THEN <<>>
  ELSE reactions_for_enzyme(st, Head(knockouts)) \o KnockoutTargets(st, Tail(knockouts))

\* The <<reaction, factor>> pairs the factor loop visits, in order
RECURSIVE FactorTargets(_, _)
FactorTargets(st, factors) ==
  IF factors = <<>> THEN <<>>
  ELSE SeqMap(reactions_for_enzyme(st, Head(factors)[1]),
              LAMBDA rxn_id : <<rxn_id, Head(factors)[2]>>)
       \o FactorTargets(st, Tail(factors))

\* A knockout loop that leaves a bound the caller has set alone (dict.setdefault)
RECURSIVE KnockoutsKeepCallerBounds(_, _, _, _)
KnockoutsKeepCallerBounds(h, new_cfg, targets, mode) ==
  IF targets = <<>> THEN h
  ELSE KnockoutsKeepCallerBounds(
         IF mode = "fba"
         THEN [h EXCEPT ![new_cfg.flux_bounds] =
                 IF Head(targets) \in DOMAIN @ THEN @
                 ELSE DictSet(@, Head(targets), <<R(0), R(0)>>)]
         ELSE [h EXCEPT ![new_cfg.vmax_overrides] = DictSet(@, Head(targets), R(0))],
         new_cfg, Tail(targets), mode)

RECURSIVE ApplyKnockouts(_, _, _, _)
ApplyKnockouts(h, new_cfg, targets, mode) ==
  IF targets = <<>> THEN h
  ELSE ApplyKnockouts(
         IF mode = "fba"
         THEN [h EXCEPT ![new_cfg.flux_bounds] = DictSet(@, Head(targets), <<R(0), R(0)>>)]
         ELSE [h EXCEPT ![new_cfg.vmax_overrides] = DictSet(@, Head(targets), R(0))],
         new_cfg, Tail(targets), mode)

\* A factor loop that scales the lower bound up to the upper one
RECURSIVE ApplyFactorsFromBelow(_, _, _, _)
ApplyFactorsFromBelow(h, new_cfg, targets, mode) ==
  IF targets = <<>> THEN h
  ELSE LET rxn_id == Head(targets)[1]
           factor == Head(targets)[2]
           old == DictGet(h[new_cfg.flux_bounds], rxn_id, <<R(0), R(DEFAULT_FLUX_CAP)>>)
       IN  ApplyFactorsFromBelow(
             IF mode = "fba"
             THEN [h EXCEPT ![new_cfg.flux_bounds] =
                                DictSet(@, rxn_id, <<RMul(old[2], factor), old[2]>>)]
             ELSE [h EXCEPT ![new_cfg.vmax_factors] =
                                DictSet(@, rxn_id, RMul(DictGet(@, rxn_id, R(1)), factor))],
             new_cfg, Tail(targets), mode)

RECURSIVE ApplyFactors(_, _, _, _)
ApplyFactors(h, new_cfg, targets, mode) ==
  IF targets = <<>> THEN h
  ELSE LET rxn_id == Head(targets)[1]
           factor == Head(targets)[2]
           old == DictGet(h[new_cfg.flux_bounds], rxn_id, <<R(0), R(DEFAULT_FLUX_CAP)>>)
       IN  ApplyFactors(
             IF mode = "fba"
             THEN [h EXCEPT ![new_cfg.flux_bounds] =
                                DictSet(@, rxn_id, <<old[1], RMul(old[2], factor)>>)]
             ELSE [h EXCEPT ![new_cfg.vmax_factors] =
                                DictSet(@, rxn_id, RMul(DictGet(@, rxn_id, R(1)), factor))],
             new_cfg, Tail(targets), mode)

\* new_cfg.initial_concentrations[cpd_id] = conc for every override
ApplyConcOverrides(h, new_cfg, overrides) ==
  [h EXCEPT ![new_cfg.initial_concentrations] =
     [c \in (DOMAIN @) \cup (DOMAIN overrides) |->
        IF c \in DOMAIN overrides THEN overrides[c] ELSE @[c]]]

\* MetabolicSimulator._apply_scenario
apply_scenario(st, h, config, scenario, mode) ==
  With(deepcopy(h, config), LAMBDA copied :
    LET new_cfg == copied.cfg
        h1 == ApplyKnockouts(copied.heap, new_cfg,
                             KnockoutTargets(st, h[scenario.enzyme_knockouts]), mode)
        h2 == ApplyFactors(h1, new_cfg, FactorTargets(st, h[scenario.enzyme_factors]), mode)
        h3 == ApplyConcOverrides(h2, new_cfg, h[scenario.initial_conc_overrides])
    IN  [heap |-> h3, cfg |-> new_cfg])

WhatIfResult(scenario_name, baseline, perturbed, delta_fluxes, delta_final_conc, mode) ==
  [scenario_name |-> scenario_name, baseline |-> baseline, perturbed |-> perturbed,
   delta_fluxes |-> delta_fluxes, delta_final_conc |-> delta_final_conc, mode |-> mode]

\* The [0.0] that concentrations.get(cpd_id, [0.0]) falls back to
ZeroSample ==
  [sample |-> 0, of |-> 0, problem |-> [specs |-> <<>>, y0 |-> <<>>, t_eval |-> <<>>]]

\* p_concs[-1] - b_concs[-1] on samples that are not computed: equal samples
\* differ by 0, other differences stay terms
SampleDiff(p, b) == IF p = b THEN R(0) ELSE [minuend |-> p, subtrahend |-> b]

Last(s) == s[Len(s)]

NoResult == [status |-> "<no result>"]

NoConfig == [pathway_id |-> NoId, reaction_ids |-> 0, initial_concentrations |-> 0,
             flux_bounds |-> 0, vmax_overrides |-> 0, vmax_factors |-> 0]

\* What a what-if call leaves behind: the exception it raised ("" for none), its
\* result, the simulation runs it made in order, the heap after it and the
\* perturbed config it derived
WhatIfRecord(raised, result, runs, h, pcfg) ==
  [raised |-> raised, result |-> result, runs |-> runs, heap |-> h, pcfg |-> pcfg]

\* A mode run_whatif falls back to without complaint
AnyMode(mode) == TRUE

\* `mode in ("fba", "ode")` in run_whatif
ValidMode(mode) == mode \in {"fba", "ode"}

\* Delta maps that walk the keys of the perturbed payload only
DeltasOverPerturbedKeys(scenario, mode, baseline, applied, perturbed) ==
  LET b == baseline.result
      p == perturbed.result
  IN  WhatIfRecord("",
        WhatIfResult(scenario.name, b, p,
          IF mode = "fba"
          THEN [rxn_id \in DOMAIN p.fluxes |->
                  RSub(p.fluxes[rxn_id], DictGet(b.fluxes, rxn_id, R(0)))]
          ELSE EmptyDict,
          IF mode = "fba" THEN EmptyDict
          ELSE [cpd_id \in DOMAIN p.concentrations |->
                  SampleDiff(Last(p.concentrations[cpd_id]),
                             Last(DictGet(b.concentrations, cpd_id, <<ZeroSample>>)))],
          mode),
        <<baseline, perturbed>>, applied.heap, applied.cfg)

\* run_whatif once both runs have returned: the delta maps and the result
WhatIfOutcome(scenario, mode, baseline, applied, perturbed) ==
  LET b == baseline.result
      p == perturbed.result
  IN  WhatIfRecord("",
        WhatIfResult(scenario.name, b, p,
          IF mode = "fba"
          THEN [rxn_id \in (DOMAIN b.fluxes) \cup (DOMAIN p.fluxes) |->
                  RSub(DictGet(p.fluxes, rxn_id, R(0)), DictGet(b.fluxes, rxn_id, R(0)))]
          ELSE EmptyDict,
          IF mode = "fba" THEN EmptyDict
          ELSE [cpd_id \in (DOMAIN b.concentrations) \cup (DOMAIN p.concentrations) |->
                  SampleDiff(Last(DictGet(p.concentrations, cpd_id, <<ZeroSample>>)),
                             Last(DictGet(b.concentrations, cpd_id, <<ZeroSample>>)))],
          mode),
        <<baseline, perturbed>>, applied.heap, applied.cfg)

\* run = self.run_fba if mode == "fba" else self.run_ode
Run(st, h, config, mode, scipy) ==
  IF mode = "fba" THEN run_fba(st, h, config, scipy) ELSE run_ode(st, h, config, scipy)

\* MetabolicSimulator.run_whatif
run_whatif(st, h, config, scenario, mode, scipy) ==
  IF ~ValidMode(mode)
  THEN WhatIfRecord("ValueError", NoResult, <<>>, h, NoConfig)
  ELSE
  With(Run(st, h, config, mode, scipy), LAMBDA baseline :
    IF baseline.raised # ""
    THEN WhatIfRecord(baseline.raised, NoResult, <<baseline>>, h, NoConfig)
    ELSE
    With(apply_scenario(st, h, config, scenario, mode), LAMBDA applied :
      With(Run(st, applied.heap, applied.cfg, mode, scipy), LAMBDA perturbed :
        IF perturbed.raised # ""
        THEN WhatIfRecord(perturbed.raised, NoResult, <<baseline, perturbed>>,
                          applied.heap, applied.cfg)
        ELSE WhatIfOutcome(scenario, mode, baseline, applied, perturbed))))

(***************************************************************************)
(* MetaKG.simulate_whatif (orchestrator)                                   *)
(***************************************************************************)
\* json.loads(scenario_json) followed by the four scenario_data.get(...) calls:
\* <<parsed, name, enzyme_knockouts, enzyme_factors, initial_conc_overrides>>
LoadsScenario(scenario_json) ==
  CASE scenario_json = "{}" -> <<TRUE, "unnamed", <<>>, <<>>, EmptyDict>>
    [] scenario_json = "{\"name\": \"ko\", \"enzyme_knockouts\": [\"enz:E1\"]}"
         -> <<TRUE, "ko", <<"enz:E1">>, <<>>, EmptyDict>>
    [] scenario_json = "{\"enzyme_factors\": {\"enz:E2\": 0.5}}"
         -> <<TRUE, "unnamed", <<>>, << <<"enz:E2", <<1, 2>>>> >>, EmptyDict>>
    [] OTHER -> <<FALSE, "", <<>>, <<>>, EmptyDict>>

\* The dict built from an FBAResult or an ODEResult
ResultDict(mode, res) ==
  IF mode = "fba"
  THEN [status |-> res.status, objective_value |-> res.objective_value,
        fluxes |-> res.fluxes, shadow_prices |-> res.shadow_prices, message |-> res.message]
  ELSE [status |-> res.status, t |-> res.t, concentrations |-> res.concentrations,
        message |-> res.message]

\* The keyword-only parameters of MetaKG.simulate_whatif and of
\* MetaKG.simulate_ode; a call with any other keyword raises TypeError
SimulateWhatIfKeywords ==
  {"mode", "initial_concentrations", "default_concentration", "t_end", "t_points"}

SimulateOdeKeywords ==
  {"t_end", "t_points", "initial_concentrations", "default_concentration",
   "initial_concentrations_json", "vmax_overrides", "vmax_factors"}

\* MetaKG.simulate_whatif; reaction_ids and initial_concentrations are the
\* addresses of the caller's containers (0 for None), kwargs the keywords the
\* call passes besides
simulate_whatif(st, h, scenario_json, pathway_id, reaction_ids, mode, initial_concentrations, default_concentration, t_end, t_points, kwargs, scipy) ==
  IF ~(DOMAIN kwargs \subseteq SimulateWhatIfKeywords)
  THEN WhatIfRecord("TypeError", NoResult, <<>>, h, NoConfig)
  ELSE
  IF mode \notin {"fba", "ode"}
  THEN WhatIfRecord("ValueError", NoResult, <<>>, h, NoConfig)
  ELSE
  LET data == LoadsScenario(scenario_json)
  IN  IF ~data[1]
      THEN WhatIfRecord("JSONDecodeError", NoResult, <<>>, h, NoConfig)
      ELSE
      LET n == Len(h)
          \* initial_concentrations or {}
          own_ic == initial_concentrations = 0 \/ h[initial_concentrations] = EmptyDict
          h1 == h \o <<data[3], data[4], data[5], EmptyDict, EmptyDict, EmptyDict, EmptyDict>>
          scenario == [name |-> data[2], enzyme_knockouts |-> n + 1,
                       enzyme_factors |-> n + 2, initial_conc_overrides |-> n + 3]
          config == [pathway_id |-> pathway_id, reaction_ids |-> reaction_ids,
                     t_end |-> t_end, t_points |-> t_points,
                     initial_concentrations |-> IF own_ic THEN n + 4
                                                ELSE initial_concentrations,
                     default_concentration |-> default_concentration,
                     objective_reaction |-> NoId, maximize |-> TRUE,
                     flux_bounds |-> n + 5, vmax_overrides |-> n + 6, vmax_factors |-> n + 7]
      IN  With(run_whatif(st, h1, config, scenario, mode, scipy), LAMBDA rec :
            IF rec.raised # "" THEN rec
            ELSE [rec EXCEPT !.result =
                    [scenario_name |-> rec.result.scenario_name,
                     baseline |-> ResultDict(mode, rec.result.baseline),
                     perturbed |-> ResultDict(mode, rec.result.perturbed),
                     delta_fluxes |-> rec.result.delta_fluxes,
                     delta_final_conc |-> rec.result.delta_final_conc,
                     mode |-> rec.result.mode]])

(***************************************************************************)
(* MetaKG.simulate_ode (orchestrator)                                      *)
(***************************************************************************)
\* json.loads(initial_concentrations_json): <<parsed, the dict>>
LoadsConcentrations(text) ==
  CASE text = "{}" -> <<TRUE, EmptyDict>>
    [] text = "{\"cpd:A\": 3.0}" -> <<TRUE, ("cpd:A" :> R(3))>>
    [] OTHER -> <<FALSE, EmptyDict>>

\* MetaKG.simulate_ode; the container arguments are heap addresses (0 for
\* None), initial_concentrations_json is NoId for None, kwargs holds the
\* keywords the call passes besides
simulate_ode(st, h, pathway_id, reaction_ids, t_end, t_points, initial_concentrations, default_concentration, initial_concentrations_json, vmax_overrides, vmax_factors, kwargs, scipy) ==
  IF ~(DOMAIN kwargs \subseteq SimulateOdeKeywords)
  THEN WhatIfRecord("TypeError", NoResult, <<>>, h, NoConfig)
  ELSE
  LET from_json == initial_concentrations_json # NoId /\ initial_concentrations_json # ""
      loaded == LoadsConcentrations(initial_concentrations_json)
  IN  IF from_json /\ ~loaded[1]
      THEN WhatIfRecord("JSONDecodeError", NoResult, <<>>, h, NoConfig)
      ELSE
      LET n == Len(h)
          Fresh(addr) == addr = 0 \/ h[addr] = EmptyDict
          h1 == h \o <<IF from_json THEN loaded[2] ELSE EmptyDict, EmptyDict, EmptyDict,
                       EmptyDict>>
          config == [pathway_id |-> pathway_id, reaction_ids |-> reaction_ids,
                     t_end |-> t_end, t_points |-> t_points,
                     initial_concentrations |->
                       IF from_json \/ Fresh(initial_concentrations) THEN n + 1
                       ELSE initial_concentrations,
                     default_concentration |-> default_concentration,
                     objective_reaction |-> NoId, maximize |-> TRUE,
                     flux_bounds |-> n + 2,
                     vmax_overrides |-> IF Fresh(vmax_overrides) THEN n + 3
                                        ELSE vmax_overrides,
                     vmax_factors |-> IF Fresh(vmax_factors) THEN n + 4 ELSE vmax_factors]
      IN  With(run_ode(st, h1, config, scipy), LAMBDA rec :
            WhatIfRecord(rec.raised,
                         IF rec.raised # "" THEN NoResult ELSE ResultDict("ode", rec.result),
                         <<rec>>, h1, config))

(***************************************************************************)
(* The state: a store, whether scipy can be imported, the heap of the      *)
(* caller's containers, the caller's config and scenario objects, the     *)
(* call the caller made last, what the first run_fba and the first run_ode *)
(* of the behaviour left behind, and the calls that threads sharing the    *)
(* simulator and the caller's objects are making.                          *)
(* Heap layout of the caller: 1 reaction_ids, 2 initial_concentrations,    *)
(* 3 flux_bounds, 4 vmax_overrides, 5 vmax_factors, 6 enzyme_knockouts,    *)
(* 7 enzyme_factors, 8 initial_conc_overrides.                             *)
(***************************************************************************)
VARIABLES store, scipy_installed, heap, caller_config, caller_scenario, call, seen,
          threads

vars ==
  <<store, scipy_installed, heap, caller_config, caller_scenario, call, seen, threads>>

\* t_points ranges over 1..MaxTPoints
MaxTPoints == 2

\* <<pathway_id, reaction_ids given, reaction_ids>>
Scopes ==
  { <<NoId, FALSE, <<>>>>, <<"pwy:P1", FALSE, <<>>>>, <<"Glycolysis", FALSE, <<>>>>,
    <<"pwy:P0", FALSE, <<>>>>, <<"pwy:none", FALSE, <<>>>>,
    <<NoId, TRUE, <<>>>>, <<NoId, TRUE, <<"rxn:R1", "rxn:R1">>>>,
    <<NoId, TRUE, <<"rxn:R3", "rxn:Rx">>>>, <<NoId, TRUE, <<"rxn:R2", "rxn:R1">>>>,
    <<"pwy:P0", TRUE, <<"rxn:R2">>>> }

CoreScopes ==
  { <<NoId, FALSE, <<>>>>, <<"pwy:P1", FALSE, <<>>>>, <<"pwy:P0", FALSE, <<>>>>,
    <<NoId, TRUE, <<"rxn:R1", "rxn:R1">>>> }

FluxBoundChoices ==
  { EmptyDict, ("rxn:R1" :> <<R(-5), R(10)>>), ("rxn:R2" :> <<R(-8), <<17, 2>>>>) }

\* <<initial_concentrations, vmax_overrides, vmax_factors>>
KineticChoices ==
  { <<EmptyDict, EmptyDict, EmptyDict>>,
    <<("cpd:A" :> R(3)), ("rxn:R1" :> R(2)), EmptyDict>>,
    <<EmptyDict, EmptyDict, ("rxn:R1" :> <<1, 2>>)>> }

Input(scope, fb, objective, maximize, t_end, t_points, kin) ==
  [scope |-> scope, flux_bounds |-> fb, objective_reaction |-> objective,
   maximize |-> maximize, t_end |-> t_end, t_points |-> t_points,
   initial_concentrations |-> kin[1], vmax_overrides |-> kin[2], vmax_factors |-> kin[3]]

NoKinetics == <<EmptyDict, EmptyDict, EmptyDict>>

FbaInputs ==
  {Input(sc, fb, NoId, TRUE, R(1), 2, NoKinetics) : sc \in Scopes, fb \in FluxBoundChoices}
  \cup {Input(sc, EmptyDict, o, mx, R(1), 2, NoKinetics) :
          sc \in {<<NoId, FALSE, <<>>>>, <<"pwy:P1", FALSE, <<>>>>,
                  <<NoId, TRUE, <<"rxn:R1", "rxn:R1">>>>},
          o \in {NoId, "rxn:R1", "rxn:R2", "rxn:Rx"}, mx \in BOOLEAN}

OdeInputs ==
  {Input(sc, EmptyDict, NoId, TRUE, te, tp, kin) :
     sc \in CoreScopes, te \in {R(0), R(1)}, tp \in 1..MaxTPoints, kin \in KineticChoices}

CoreInputs ==
  {Input(sc, fb, NoId, TRUE, R(1), 2, kin) :
     sc \in {<<NoId, FALSE, <<>>>>, <<"pwy:P1", FALSE, <<>>>>,
             <<NoId, TRUE, <<"rxn:R1", "rxn:R1">>>>, <<NoId, TRUE, <<"rxn:R2">>>>},
     fb \in {EmptyDict, ("rxn:R1" :> <<R(-5), R(10)>>), ("rxn:R2" :> <<R(5), R(10)>>)},
     kin \in {NoKinetics, <<EmptyDict, EmptyDict, ("rxn:R1" :> <<1, 2>>)>>}}

\* <<name, enzyme_knockouts, enzyme_factors, initial_conc_overrides>>
NoScenario == <<"none", <<>>, <<>>, EmptyDict>>

Scenarios ==
  { NoScenario,
    <<"ko1", <<"enz:E1">>, <<>>, EmptyDict>>,
    <<"ko2", <<"enz:E2">>, <<>>, EmptyDict>>,
    <<"ko1x2", <<"enz:E1">>, << <<"enz:E2", R(2)>> >>, EmptyDict>>,
    <<"half1", <<>>, << <<"Hexokinase", <<1, 2>>>> >>, EmptyDict>>,
    <<"half12", <<>>, << <<"enz:E1", <<1, 2>>>>, <<"enz:E2", <<1, 2>>>> >>, EmptyDict>>,
    <<"half2", <<>>, << <<"enz:E2", <<1, 2>>>> >>, EmptyDict>>,
    <<"outside", <<"enz:none">>, << <<"enz:E3", R(2)>> >>, EmptyDict>>,
    <<"conc", <<>>, <<>>, ("cpd:A" :> R(3))>>,
    <<"ko3", <<"enz:E3", "enz:E3">>, <<>>, ("cpd:B" :> R(0))>> }

Case(st, scipy, input, scenario) ==
  [store |-> st, scipy |-> scipy, input |-> input, scenario |-> scenario]

Cases ==
  {Case(st, TRUE, input, scenario) :
     st \in {StoreA, StoreB}, input \in FbaInputs \cup OdeInputs,
     scenario \in {NoScenario, <<"ko1x2", <<"enz:E1">>, << <<"enz:E2", R(2)>> >>, EmptyDict>>,
                   <<"outside", <<"enz:none">>, << <<"enz:E3", R(2)>> >>, EmptyDict>>}}
  \cup {Case(st, TRUE, input, scenario) :
          st \in {StoreA, StoreB}, input \in CoreInputs, scenario \in Scenarios}
  \cup {Case(st, scipy, Input(sc, EmptyDict, NoId, TRUE, R(1), 2, NoKinetics), scenario) :
          st \in Stores, scipy \in BOOLEAN,
          sc \in {<<NoId, FALSE, <<>>>>, <<"pwy:P1", FALSE, <<>>>>},
          scenario \in {NoScenario, <<"ko1", <<"enz:E1">>, <<>>, EmptyDict>>}}
  \cup {Case(StoreG, TRUE, Input(sc, EmptyDict, NoId, mx, R(1), 2, NoKinetics), NoScenario) :
          sc \in {<<NoId, FALSE, <<>>>>, <<"pwy:P1", FALSE, <<>>>>,
                  <<NoId, TRUE, <<"rxn:R2">>>>}, mx \in BOOLEAN}

\* The threads that hold the simulator; each makes one call
NThreads == 2

Threads == 1..NThreads

\* The thread that constructed the MetaStore, and so opened its connection
StoreOwner == 1

\* A thread that has not called yet.  local holds the containers only this
\* thread refers to: for the thread they follow the shared heap
ThreadReady ==
  [pc |-> "ready", op |-> "", mode |-> "", raised |-> "", result |-> NoResult,
   runs |-> <<>>, local |-> <<>>, pcfg |-> NoConfig]

\* No run_fba and no run_ode has been made yet
NotSeen == [run_fba |-> <<>>, run_ode |-> <<>>, whatif_since |-> FALSE]

\* The first run of each kind is kept
Remember(op, rec) == IF seen[op] = <<>> THEN [seen EXCEPT ![op] = <<rec>>] ELSE seen

\* A what-if call that made both its runs after a first run was kept is noted
RememberWhatIf(rec) ==
  IF Len(rec.runs) = 2 /\ (seen.run_fba # <<>> \/ seen.run_ode # <<>>)
  THEN [seen EXCEPT !.whatif_since = TRUE] ELSE seen

Idle ==
  [op |-> "idle", mode |-> "", raised |-> "", result |-> NoResult, runs |-> <<>>,
   pcfg |-> NoConfig, kwargs |-> EmptyDict]

\* The store, the config and the scenario of a case, before any call
InitCase(c) ==
    /\ store = c.store
    /\ scipy_installed = c.scipy
    /\ heap = << c.input.scope[3], c.input.initial_concentrations, c.input.flux_bounds,
                 c.input.vmax_overrides, c.input.vmax_factors,
                 c.scenario[2], c.scenario[3], c.scenario[4] >>
    /\ caller_config =
         [pathway_id |-> c.input.scope[1],
          reaction_ids |-> IF c.input.scope[2] THEN 1 ELSE 0,
          t_end |-> c.input.t_end, t_points |-> c.input.t_points,
          initial_concentrations |-> 2, default_concentration |-> R(1),
          objective_reaction |-> c.input.objective_reaction,
          maximize |-> c.input.maximize,
          flux_bounds |-> 3, vmax_overrides |-> 4, vmax_factors |-> 5]
    /\ caller_scenario =
         [name |-> c.scenario[1], enzyme_knockouts |-> 6, enzyme_factors |-> 7,
          initial_conc_overrides |-> 8]
    /\ call = Idle
    /\ seen = NotSeen
    /\ threads = [t \in Threads |-> ThreadReady]

Init == \E c \in Cases : InitCase(c)

Modes == {"fba", "ode", "sbml"}

ScenarioJsons ==
  { "{}", "{\"name\": \"ko\", \"enzyme_knockouts\": [\"enz:E1\"]}",
    "{\"enzyme_factors\": {\"enz:E2\": 0.5}}", "not json" }

ConcentrationJsons == {NoId, "{\"cpd:A\": 3.0}", "not json"}

\* What stays of the heap once a call is over: the caller's own containers
Kept(h) == SubSeq(h, 1, Len(heap))

\* sim.run_fba(config)
RunFba ==
  /\ call.op = "idle"
  /\ \E rec \in {run_fba(store, heap, caller_config, scipy_installed)} :
         /\ call' = [op |-> "run_fba", mode |-> "fba", raised |-> rec.raised,
                     result |-> rec.result, runs |-> <<rec>>, pcfg |-> NoConfig,
                     kwargs |-> EmptyDict]
         /\ seen' = Remember("run_fba", rec)
  /\ UNCHANGED <<store, scipy_installed, heap, caller_config, caller_scenario, threads>>

\* sim.run_ode(config)
RunOde ==
  /\ call.op = "idle"
  /\ \E rec \in {run_ode(store, heap, caller_config, scipy_installed)} :
         /\ call' = [op |-> "run_ode", mode |-> "ode", raised |-> rec.raised,
                     result |-> rec.result, runs |-> <<rec>>, pcfg |-> NoConfig,
                     kwargs |-> EmptyDict]
         /\ seen' = Remember("run_ode", rec)
  /\ UNCHANGED <<store, scipy_installed, heap, caller_config, caller_scenario, threads>>

\* sim.run_whatif(config, scenario, mode)
RunWhatIf(mode) ==
  /\ call.op = "idle"
  /\ \E rec \in {run_whatif(store, heap, caller_config, caller_scenario, mode,
                            scipy_installed)} :
         /\ call' = [op |-> "run_whatif", mode |-> mode, raised |-> rec.raised,
                     result |-> rec.result, runs |-> rec.runs, pcfg |-> rec.pcfg,
                     kwargs |-> EmptyDict]
         /\ heap' = Kept(rec.heap)
         /\ seen' = RememberWhatIf(rec)
  /\ UNCHANGED <<store, scipy_installed, caller_config, caller_scenario, threads>>

\* MetaKG.simulate_fba
simulate_fba(st, h, pathway_id, reaction_ids, t_end, t_points, initial_concentrations, default_concentration, objective_reaction, maximize, flux_bounds, vmax_overrides, vmax_factors, scipy) ==
  LET n == Len(h)
      Fresh(addr) == addr = 0 \/ h[addr] = EmptyDict
      h1 == h \o <<EmptyDict, EmptyDict, EmptyDict, EmptyDict>>
      config == [pathway_id |-> pathway_id, reaction_ids |-> reaction_ids,
                 t_end |-> t_end, t_points |-> t_points,
                 initial_concentrations |->
                   IF Fresh(initial_concentrations) THEN n + 1 ELSE initial_concentrations,
                 default_concentration |-> default_concentration,
                 objective_reaction |-> objective_reaction, maximize |-> maximize,
                 flux_bounds |-> IF Fresh(flux_bounds) THEN n + 2 ELSE flux_bounds,
                 vmax_overrides |-> IF Fresh(vmax_overrides) THEN n + 3 ELSE vmax_overrides,
                 vmax_factors |-> IF Fresh(vmax_factors) THEN n + 4 ELSE vmax_factors]
  IN  With(run_fba(st, h1, config, scipy), LAMBDA rec :
        WhatIfRecord(rec.raised,
                     IF rec.raised # "" THEN NoResult ELSE ResultDict("fba", rec.result),
                     <<rec>>, h1, config))

(***************************************************************************)
(* The MCP tools (mcp_tools.py)                                            *)
(***************************************************************************)
DEFAULT_T_END == R(100)

DEFAULT_T_POINTS == 500

\* store.resolve_id(pathway_id) if pathway_id else None
ToolPathway(st, pathway_id) ==
  IF pathway_id = NoId \/ pathway_id = "" THEN NoId ELSE resolve_id(st, pathway_id)

\* SimulationConfig(pathway_id=..., ...) with its own empty containers at the
\* addresses n + 1 .. n + 4
ToolConfig(n, pwy_id, t_end, t_points, default_concentration, objective_reaction, maximize) ==
  [pathway_id |-> pwy_id, reaction_ids |-> 0, t_end |-> t_end, t_points |-> t_points,
   initial_concentrations |-> n + 1, default_concentration |-> default_concentration,
   objective_reaction |-> objective_reaction, maximize |-> maximize,
   flux_bounds |-> n + 2, vmax_overrides |-> n + 3, vmax_factors |-> n + 4]

\* node["name"] if node else the id
NameOf(st, id) == IF HasNode(st, id) THEN node(st, id).name ELSE id

\* The simulate_fba tool; the JSON text it returns is held as the dict it dumps
tool_simulate_fba(st, h, pathway_id, objective_reaction, maximize, scipy) ==
  LET h1 == h \o <<EmptyDict, EmptyDict, EmptyDict, EmptyDict>>
      config == ToolConfig(Len(h), ToolPathway(st, pathway_id), DEFAULT_T_END,
                           DEFAULT_T_POINTS, R(1),
                           IF objective_reaction = "" THEN NoId ELSE objective_reaction,
                           maximize)
  IN  With(run_fba(st, h1, config, scipy), LAMBDA rec :
        WhatIfRecord(rec.raised,
                     IF rec.raised # "" THEN NoResult
                     ELSE [status |-> rec.result.status,
                           objective_value |-> rec.result.objective_value,
                           message |-> rec.result.message,
                           fluxes |-> [rxn_id \in DOMAIN rec.result.fluxes |->
                                         [name |-> NameOf(st, rxn_id),
                                          flux |-> rec.result.fluxes[rxn_id]]],
                           shadow_prices |-> rec.result.shadow_prices],
                     <<rec>>, h1, config))

\* The simulate_ode tool; the order of its summary list (by final
\* concentration) is not represented
tool_simulate_ode(st, h, pathway_id, t_end, t_points, initial_concentrations_json, default_concentration, scipy) ==
  LET loaded == LoadsConcentrations(initial_concentrations_json)
      h1 == h \o <<IF loaded[1] THEN loaded[2] ELSE EmptyDict, EmptyDict, EmptyDict, EmptyDict>>
      config == ToolConfig(Len(h), ToolPathway(st, pathway_id), t_end, t_points,
                           default_concentration, NoId, TRUE)
  IN  With(run_ode(st, h1, config, scipy), LAMBDA rec :
        WhatIfRecord(rec.raised,
                     IF rec.raised # "" THEN NoResult
                     ELSE [status |-> rec.result.status, message |-> rec.result.message,
                           t |-> rec.result.t, concentrations |-> rec.result.concentrations,
                           summary |-> {[id |-> cpd_id, name |-> NameOf(st, cpd_id),
                                         initial_mM |-> rec.result.concentrations[cpd_id][1],
                                         final_mM |-> Last(rec.result.concentrations[cpd_id])] :
                                        cpd_id \in DOMAIN rec.result.concentrations}],
                     <<rec>>, h1, config))

\* store.resolve_id(e) or e
ResolvedOrSame(st, id) == IF resolve_id(st, id) = NoId THEN id ELSE resolve_id(st, id)

\* The simulate_whatif tool in mode 'fba' (any other mode but 'ode' raises in
\* run_whatif); the order of top_changes (by |delta|) is not represented
tool_simulate_whatif(st, h, pathway_id, scenario_json, mode, scipy) ==
  LET data == LoadsScenario(scenario_json)
  IN  IF ~data[1]
      THEN WhatIfRecord("", [error |-> "Invalid scenario_json"], <<>>, h, NoConfig)
      ELSE
      LET n == Len(h)
          h1 == h \o <<EmptyDict, EmptyDict, EmptyDict, EmptyDict,
                       SeqMap(data[3], LAMBDA e : ResolvedOrSame(st, e)),
                       SeqMap(data[4], LAMBDA f : <<ResolvedOrSame(st, f[1]), f[2]>>),
                       data[5]>>
          config == ToolConfig(n, ToolPathway(st, pathway_id), DEFAULT_T_END,
                               DEFAULT_T_POINTS, R(1), NoId, TRUE)
          scenario == [name |-> IF data[2] = "unnamed" THEN "whatif" ELSE data[2],
                       enzyme_knockouts |-> n + 5, enzyme_factors |-> n + 6,
                       initial_conc_overrides |-> n + 7]
      IN  With(run_whatif(st, h1, config, scenario, mode, scipy), LAMBDA rec :
            IF rec.raised # "" THEN rec
            ELSE [rec EXCEPT !.result =
                    [scenario_name |-> rec.result.scenario_name,
                     mode |-> rec.result.mode,
                     baseline_status |-> rec.result.baseline.status,
                     perturbed_status |-> rec.result.perturbed.status,
                     baseline_objective |-> rec.result.baseline.objective_value,
                     perturbed_objective |-> rec.result.perturbed.objective_value,
                     top_changes |->
                       {[id |-> rxn_id, name |-> NameOf(st, rxn_id),
                         baseline_flux |-> DictGet(rec.result.baseline.fluxes, rxn_id, R(0)),
                         perturbed_flux |-> DictGet(rec.result.perturbed.fluxes, rxn_id, R(0)),
                         delta |-> rec.result.delta_fluxes[rxn_id]] :
                        rxn_id \in {r \in DOMAIN rec.result.delta_fluxes :
                                      rec.result.delta_fluxes[r] # R(0)}}]])

\* The solver options a caller passes: none, the method, or all four
SolverOptions ==
  { EmptyDict, ("ode_method" :> "BDF"),
    ("ode_method" :> "BDF" @@ "ode_rtol" :> <<1, 1000>> @@ "ode_atol" :> <<1, 100000>>
       @@ "ode_max_step" :> None) }

\* kg.simulate_ode(pathway_id, reaction_ids, t_end=..., ..., **kwargs)
SimulateOde(initial_concentrations_json, kwargs) ==
  /\ call.op = "idle"
  /\ \E rec \in {simulate_ode(store, heap, caller_config.pathway_id,
                              caller_config.reaction_ids, caller_config.t_end,
                              caller_config.t_points, caller_config.initial_concentrations,
                              caller_config.default_concentration,
                              initial_concentrations_json, caller_config.vmax_overrides,
                              caller_config.vmax_factors, kwargs, scipy_installed)} :
         /\ call' = [op |-> "simulate_ode", mode |-> "ode", raised |-> rec.raised,
                     result |-> rec.result, runs |-> rec.runs, pcfg |-> rec.pcfg,
                     kwargs |-> kwargs]
         /\ heap' = Kept(rec.heap)
  /\ UNCHANGED <<store, scipy_installed, caller_config, caller_scenario, seen, threads>>

\* kg.simulate_whatif(scenario_json, pathway_id, reaction_ids, mode=..., ..., **kwargs)
SimulateWhatIf(scenario_json, mode, kwargs) ==
  /\ call.op = "idle"
  /\ \E rec \in {simulate_whatif(store, heap, scenario_json, caller_config.pathway_id,
                                 caller_config.reaction_ids, mode,
                                 caller_config.initial_concentrations,
                                 caller_config.default_concentration,
                                 caller_config.t_end, caller_config.t_points,
                                 kwargs, scipy_installed)} :
         /\ call' = [op |-> "simulate_whatif", mode |-> mode, raised |-> rec.raised,
                     result |-> rec.result, runs |-> rec.runs, pcfg |-> rec.pcfg,
                     kwargs |-> kwargs]
         /\ heap' = Kept(rec.heap)
         /\ seen' = RememberWhatIf(rec)
  /\ UNCHANGED <<store, scipy_installed, caller_config, caller_scenario, threads>>

\* The caller takes the result (or the exception) and is free to call again
Return ==
  /\ call.op # "idle"
  /\ call' = Idle
  /\ UNCHANGED <<store, scipy_installed, heap, caller_config, caller_scenario, seen, threads>>

\* kg.simulate_fba(pathway_id=..., reaction_ids=..., ...)
SimulateFba ==
  /\ call.op = "idle"
  /\ \E rec \in {simulate_fba(store, heap, caller_config.pathway_id,
                              caller_config.reaction_ids, caller_config.t_end,
                              caller_config.t_points, caller_config.initial_concentrations,
                              caller_config.default_concentration,
                              caller_config.objective_reaction, caller_config.maximize,
                              caller_config.flux_bounds, caller_config.vmax_overrides,
                              caller_config.vmax_factors, scipy_installed)} :
         /\ call' = [op |-> "simulate_fba", mode |-> "fba", raised |-> rec.raised,
                     result |-> rec.result, runs |-> rec.runs, pcfg |-> rec.pcfg,
                     kwargs |-> EmptyDict]
         /\ heap' = Kept(rec.heap)
  /\ UNCHANGED <<store, scipy_installed, caller_config, caller_scenario, seen, threads>>

\* The simulate_fba tool, called with the pathway id of the caller's request
ToolSimulateFba ==
  /\ call.op = "idle" /\ caller_config.pathway_id # NoId
  /\ \E rec \in {tool_simulate_fba(store, heap, caller_config.pathway_id,
                                   IF caller_config.objective_reaction = NoId THEN ""
                                   ELSE caller_config.objective_reaction,
                                   caller_config.maximize, scipy_installed)} :
         /\ call' = [op |-> "tool_simulate_fba", mode |-> "fba", raised |-> rec.raised,
                     result |-> rec.result, runs |-> rec.runs, pcfg |-> rec.pcfg,
                     kwargs |-> EmptyDict]
         /\ heap' = Kept(rec.heap)
  /\ UNCHANGED <<store, scipy_installed, caller_config, caller_scenario, seen, threads>>

\* The simulate_ode tool
ToolSimulateOde(initial_concentrations_json) ==
  /\ call.op = "idle" /\ caller_config.pathway_id # NoId
  /\ \E rec \in {tool_simulate_ode(store, heap, caller_config.pathway_id,
                                   caller_config.t_end, caller_config.t_points,
                                   initial_concentrations_json,
                                   caller_config.default_concentration, scipy_installed)} :
         /\ call' = [op |-> "tool_simulate_ode", mode |-> "ode", raised |-> rec.raised,
                     result |-> rec.result, runs |-> rec.runs, pcfg |-> rec.pcfg,
                     kwargs |-> EmptyDict]
         /\ heap' = Kept(rec.heap)
  /\ UNCHANGED <<store, scipy_installed, caller_config, caller_scenario, seen, threads>>

\* The simulate_whatif tool
ToolSimulateWhatIf(scenario_json, mode) ==
  /\ call.op = "idle" /\ caller_config.pathway_id # NoId
  /\ \E rec \in {tool_simulate_whatif(store, heap, caller_config.pathway_id,
                                      scenario_json, mode, scipy_installed)} :
         /\ call' = [op |-> "tool_simulate_whatif", mode |-> mode, raised |-> rec.raised,
                     result |-> rec.result, runs |-> rec.runs, pcfg |-> rec.pcfg,
                     kwargs |-> EmptyDict]
         /\ heap' = Kept(rec.heap)
  /\ UNCHANGED <<store, scipy_installed, caller_config, caller_scenario, seen, threads>>

Next ==
  \/ RunFba
  \/ RunOde
  \/ \E mode \in Modes : RunWhatIf(mode)
  \/ \E text \in ConcentrationJsons, kwargs \in SolverOptions : SimulateOde(text, kwargs)
  \/ \E scenario_json \in ScenarioJsons, mode \in Modes, kwargs \in {EmptyDict, ("ode_method" :> "BDF")} :
       SimulateWhatIf(scenario_json, mode, kwargs)
  \/ Return

Spec == Init /\ [][Next]_vars

(***************************************************************************)
(* Threads.  Several threads hold the one MetabolicSimulator, its store    *)
(* and the caller's config and scenario, and each makes one call.  A       *)
(* simulation run is one step; run_whatif takes three: the baseline run,   *)
(* _apply_scenario, the perturbed run with the delta maps.  The store's    *)
(* connection comes from sqlite3.connect(path), so check_same_thread has   *)
(* its default, True: sqlite3 raises ProgrammingError on every use of the  *)
(* connection from a thread other than the one that opened it.             *)
(***************************************************************************)
\* sqlite3's test on each use of the connection
check_same_thread(t) == t = StoreOwner

\* run(config) in thread t: with scipy present the first thing it does is a
\* store query (_build_stoich_matrix)
ThreadRun(t, st, h, config, mode, scipy) ==
  IF scipy /\ ~check_same_thread(t)
  THEN RunRecord(NoResult, "ProgrammingError", NoTrace)
  ELSE Run(st, h, config, mode, scipy)

\* The thread's call is over
Done(t, op, mode, raised, result, runs) ==
  [threads EXCEPT ![t] = [@ EXCEPT !.pc = "done", !.op = op, !.mode = mode,
                                   !.raised = raised, !.result = result, !.runs = runs]]

ThreadFrame == UNCHANGED <<store, scipy_installed, caller_config, caller_scenario, call, seen>>

\* sim.run_fba(config) in thread t
ThreadRunFba(t) ==
  /\ threads[t].pc = "ready"
  /\ \E rec \in {ThreadRun(t, store, heap, caller_config, "fba", scipy_installed)} :
       threads' = Done(t, "run_fba", "fba", rec.raised, rec.result, <<rec>>)
  /\ UNCHANGED heap
  /\ ThreadFrame

\* sim.run_ode(config) in thread t
ThreadRunOde(t) ==
  /\ threads[t].pc = "ready"
  /\ \E rec \in {ThreadRun(t, store, heap, caller_config, "ode", scipy_installed)} :
       threads' = Done(t, "run_ode", "ode", rec.raised, rec.result, <<rec>>)
  /\ UNCHANGED heap
  /\ ThreadFrame

\* sim.run_whatif(config, scenario, mode) in thread t, up to baseline = run(config)
ThreadBaseline(t, mode) ==
  /\ threads[t].pc = "ready"
  /\ IF ~ValidMode(mode)
     THEN threads' = Done(t, "run_whatif", mode, "ValueError", NoResult, <<>>)
     ELSE \E rec \in {ThreadRun(t, store, heap, caller_config, mode, scipy_installed)} :
            IF rec.raised # ""
            THEN threads' = Done(t, "run_whatif", mode, rec.raised, NoResult, <<rec>>)
            ELSE threads' = [threads EXCEPT ![t] =
                               [@ EXCEPT !.pc = "baseline", !.op = "run_whatif",
                                         !.mode = mode, !.runs = <<rec>>]]
  /\ UNCHANGED heap
  /\ ThreadFrame

\* perturbed_cfg = self._apply_scenario(config, scenario, mode) in thread t; the
\* store is asked for the reactions of every enzyme the scenario names
ThreadApply(t) ==
  /\ threads[t].pc = "baseline"
  /\ IF ~check_same_thread(t)
        /\ (heap[caller_scenario.enzyme_knockouts] # <<>>
            \/ heap[caller_scenario.enzyme_factors] # <<>>)
     THEN /\ threads' = Done(t, "run_whatif", threads[t].mode, "ProgrammingError",
                             NoResult, threads[t].runs)
          /\ UNCHANGED heap
     ELSE \E applied \in {apply_scenario(store, heap, caller_config, caller_scenario,
                                         threads[t].mode)} :
            /\ heap' = SubSeq(applied.heap, 1, Len(heap))
            /\ threads' = [threads EXCEPT ![t] =
                             [@ EXCEPT !.pc = "applied", !.pcfg = applied.cfg,
                                       !.local = SubSeq(applied.heap, Len(heap) + 1,
                                                        Len(applied.heap))]]
  /\ ThreadFrame

\* perturbed = run(perturbed_cfg), the delta maps and the return in thread t
ThreadPerturbed(t) ==
  /\ threads[t].pc = "applied"
  /\ \E rec \in {ThreadRun(t, store, heap \o threads[t].local, threads[t].pcfg,
                            threads[t].mode, scipy_installed)} :
       IF rec.raised # ""
       THEN threads' = Done(t, "run_whatif", threads[t].mode, rec.raised, NoResult,
                            Append(threads[t].runs, rec))
       ELSE \E out \in {WhatIfOutcome(caller_scenario, threads[t].mode, threads[t].runs[1],
                                       [heap |-> heap \o threads[t].local,
                                        cfg |-> threads[t].pcfg], rec)} :
              threads' = Done(t, "run_whatif", threads[t].mode, "", out.result, out.runs)
  /\ UNCHANGED heap
  /\ ThreadFrame

ThreadCases ==
  {Case(st, scipy, Input(sc, fb, NoId, TRUE, R(1), 2, NoKinetics), scenario) :
     st \in {StoreA, StoreG}, scipy \in BOOLEAN,
     sc \in {<<NoId, FALSE, <<>>>>, <<"pwy:P1", FALSE, <<>>>>},
     fb \in {EmptyDict, ("rxn:R1" :> <<R(-5), R(10)>>)},
     scenario \in {NoScenario, <<"ko1", <<"enz:E1">>, <<>>, EmptyDict>>,
                   <<"conc", <<>>, <<>>, ("cpd:A" :> R(3))>>}}

InitThreads == \E c \in ThreadCases : InitCase(c)

NextThreads ==
  \E t \in Threads :
    \/ ThreadRunFba(t)
    \/ ThreadRunOde(t)
    \/ \E mode \in Modes : ThreadBaseline(t, mode)
    \/ ThreadApply(t)
    \/ ThreadPerturbed(t)

SpecThreads == InitThreads /\ [][NextThreads]_vars

(***************************************************************************)
(* Path finding: one find_shortest_path call at a time over a store        *)
(***************************************************************************)
MaxHopsAsked == 3

PathStores == {StoreA, StoreG, StoreP}

\* The ids a caller asks about: those of the store's nodes and one it lacks
PathIds(st) == {st.nodes[i].id : i \in DOMAIN st.nodes} \cup {"cpd:ghost"}

\* store.find_shortest_path(from_id, to_id, max_hops=max_hops)
FindShortestPath(from_id, to_id, max_hops) ==
  /\ call.op = "idle"
  /\ \E res \in {find_shortest_path(store, from_id, to_id, max_hops)} :
       call' = [op |-> "find_shortest_path", mode |-> "", raised |-> "", result |-> res,
                runs |-> <<>>, pcfg |-> NoConfig,
                kwargs |-> [from_id |-> from_id, to_id |-> to_id, max_hops |-> max_hops]]
  /\ UNCHANGED <<store, scipy_installed, heap, caller_config, caller_scenario, seen, threads>>

PathCases ==
  {Case(st, TRUE, Input(<<NoId, FALSE, <<>>>>, EmptyDict, NoId, TRUE, R(1), 2, NoKinetics), NoScenario) : st \in PathStores}

InitPath == \E c \in PathCases : InitCase(c)

NextPath ==
  \/ \E from_id \in PathIds(store), to_id \in PathIds(store), max_hops \in 0..MaxHopsAsked :
       FindShortestPath(from_id, to_id, max_hops)
  \/ Return

SpecPath == InitPath /\ [][NextPath]_vars

(***************************************************************************)
(* Kinetics: run_ode, and run_whatif in mode 'ode', over configs that      *)
(* carry Vmax overrides and factors                                        *)
(***************************************************************************)
VmaxOverrideChoices ==
  { EmptyDict, ("rxn:R1" :> R(2)), ("rxn:R1" :> R(0)), ("rxn:R1" :> R(2) @@ "rxn:R3" :> R(5)) }

VmaxFactorChoices ==
  { EmptyDict, ("rxn:R1" :> <<1, 2>>), ("rxn:R1" :> R(0)), ("rxn:R2" :> R(3)) }

KineticScopes ==
  { <<NoId, FALSE, <<>>>>, <<"pwy:P1", FALSE, <<>>>>, <<NoId, TRUE, <<"rxn:R2">>>>,
    <<NoId, TRUE, <<"rxn:R3", "rxn:Rx">>>> }

KineticScenarios ==
  { NoScenario,
    <<"half1", <<>>, << <<"Hexokinase", <<1, 2>>>> >>, EmptyDict>>,
    <<"half12", <<>>, << <<"enz:E1", <<1, 2>>>>, <<"enz:E2", <<1, 2>>>> >>, EmptyDict>>,
    <<"ko1x2", <<"enz:E1">>, << <<"enz:E2", R(2)>> >>, EmptyDict>> }

KineticCases ==
  {Case(st, TRUE, Input(sc, EmptyDict, NoId, TRUE, R(1), 2, <<EmptyDict, vo, vf>>), scenario) :
     st \in {StoreA, StoreB, StoreG, StoreS}, sc \in KineticScopes, vo \in VmaxOverrideChoices,
     vf \in VmaxFactorChoices, scenario \in KineticScenarios}

InitKinetics == \E c \in KineticCases : InitCase(c)

NextKinetics ==
  \/ RunOde
  \/ RunWhatIf("ode")
  \/ Return

SpecKinetics == InitKinetics /\ [][NextKinetics]_vars

\* Requests by pathway: ids and names of pathways, ids that match nothing, the
\* id of a reaction, the empty string
PathwayRequests ==
  { <<"pwy:P1", FALSE, <<>>>>, <<"Glycolysis", FALSE, <<>>>>, <<"pwy:P0", FALSE, <<>>>>,
    <<"pwy:none", FALSE, <<>>>>, <<"rxn:R1", FALSE, <<>>>>, <<"", FALSE, <<>>>>,
    <<"pwy:none", TRUE, <<"rxn:R2">>>>, <<"pwy:none", TRUE, <<>>>> }

PathwayCases ==
  {Case(st, scipy, Input(sc, EmptyDict, o, mx, R(1), 2, NoKinetics), NoScenario) :
     st \in {StoreA, StoreG, EmptyStore}, scipy \in BOOLEAN, sc \in PathwayRequests,
     o \in {NoId, "rxn:R1"}, mx \in BOOLEAN}

InitPathway == \E c \in PathwayCases : InitCase(c)

NextPathway ==
  \/ RunFba
  \/ RunOde
  \/ \E mode \in {"fba", "ode"} : RunWhatIf(mode)
  \/ SimulateFba
  \/ SimulateOde(NoId, EmptyDict)
  \/ ToolSimulateFba
  \/ \E text \in ConcentrationJsons : ToolSimulateOde(text)
  \/ \E scenario_json \in ScenarioJsons : ToolSimulateWhatIf(scenario_json, "fba")
  \/ Return

SpecPathway == InitPathway /\ [][NextPathway]_vars

\* Scenarios of knockouts and of activity factors between 0 and 1
InhibitionScenarios ==
  { NoScenario,
    <<"ko1", <<"enz:E1">>, <<>>, EmptyDict>>,
    <<"full2", <<>>, << <<"enz:E2", R(1)>> >>, EmptyDict>>,
    <<"most2", <<>>, << <<"enz:E2", <<3, 4>>>> >>, EmptyDict>>,
    <<"ko1half2", <<"enz:E1">>, << <<"enz:E2", <<1, 2>>>> >>, EmptyDict>>,
    <<"zero3", <<>>, << <<"enz:E3", R(0)>> >>, EmptyDict>> }

InhibitionCases ==
  {Case(st, TRUE, Input(sc, fb, o, mx, R(1), 2, NoKinetics), scenario) :
     st \in {StoreA, StoreB, StoreG},
     sc \in {<<NoId, FALSE, <<>>>>, <<"pwy:P1", FALSE, <<>>>>, <<NoId, TRUE, <<"rxn:R2">>>>,
             <<NoId, TRUE, <<"rxn:R1", "rxn:R1">>>>},
     fb \in {EmptyDict, ("rxn:R1" :> <<R(-5), R(10)>>)},
     o \in {NoId, "rxn:R1", "rxn:R2"}, mx \in BOOLEAN, scenario \in InhibitionScenarios}

InitInhibition == \E c \in InhibitionCases : InitCase(c)

NextInhibition == \/ RunFba \/ RunWhatIf("fba") \/ Return

SpecInhibition == InitInhibition /\ [][NextInhibition]_vars

(***************************************************************************)
(* The parsers: what they store of the direction of a reaction             *)
(***************************************************************************)
NoAttr == "<absent>"

\* attrib.get(name, default)
AttribGet(value, default) == IF value = NoAttr THEN default ELSE value

\* SBMLParser.parse: the "direction" of the stoichiometry blob of a reaction
sbml_direction(reversible_attr) ==
  IF Lower(AttribGet(reversible_attr, "false")) = "true" THEN "reversible" ELSE "forward"

\* KGMLParser.parse: the "direction" of the stoichiometry blob of a reaction
kgml_direction(type_attr) == AttribGet(type_attr, "irreversible")

\* json.dumps of the stoichiometry blob, of which the simulator reads "direction"
DumpsDirection(direction) ==
  CASE direction = "irreversible" -> "{\"direction\": \"irreversible\"}"
    [] direction = "reversible" -> "{\"direction\": \"reversible\"}"
    [] direction = "forward" -> "{\"direction\": \"forward\"}"

\* The nodes and edges a parser returns for a file with the reactions
\* R1: A -> B and R2: B -> C, once written to the store
ParsedStore(direction1, direction2) ==
  [nodes |-> << Node("pwy:P1", "pathway", "Glycolysis", NullBlob),
                Node("cpd:A", "compound", "A", NullBlob),
                Node("cpd:B", "compound", "B", NullBlob),
                Node("cpd:C", "compound", "C", NullBlob),
                Node("rxn:R1", "reaction", "R1", DumpsDirection(direction1)),
                Node("rxn:R2", "reaction", "R2", DumpsDirection(direction2)) >>,
   edges |-> << Edge("pwy:P1", "CONTAINS", "rxn:R1", NullBlob),
                Edge("cpd:A", "SUBSTRATE_OF", "rxn:R1", "{\"stoich\": 1.0}"),
                Edge("rxn:R1", "PRODUCT_OF", "cpd:B", "{\"stoich\": 1.0}"),
                Edge("pwy:P1", "CONTAINS", "rxn:R2", NullBlob),
                Edge("cpd:B", "SUBSTRATE_OF", "rxn:R2", "{\"stoich\": 1.0}"),
                Edge("rxn:R2", "PRODUCT_OF", "cpd:C", "{\"stoich\": 1.0}") >>,
   xref |-> {},
   kinetics |-> <<>>]

\* The values of the reversible attribute of an SBML reaction
SbmlReversibleAttrs == {NoAttr, "true", "false", "True"}

\* The values of the type attribute of a KGML reaction
KgmlTypeAttrs == {NoAttr, "reversible", "irreversible"}

\* SBMLParser.parse and the write of its nodes and edges to an empty store
ParseSbml(reversible1, reversible2) ==
  /\ store = EmptyStore /\ call.op = "idle"
  /\ store' = ParsedStore(sbml_direction(reversible1), sbml_direction(reversible2))
  /\ UNCHANGED <<scipy_installed, heap, caller_config, caller_scenario, call, seen, threads>>

\* KGMLParser.parse and the write of its nodes and edges to an empty store
ParseKgml(type1, type2) ==
  /\ store = EmptyStore /\ call.op = "idle"
  /\ store' = ParsedStore(kgml_direction(type1), kgml_direction(type2))
  /\ UNCHANGED <<scipy_installed, heap, caller_config, caller_scenario, call, seen, threads>>

ParserCases ==
  {Case(EmptyStore, TRUE, Input(sc, fb, NoId, mx, R(1), 2, NoKinetics), NoScenario) :
     sc \in {<<NoId, FALSE, <<>>>>, <<"pwy:P1", FALSE, <<>>>>, <<NoId, TRUE, <<"rxn:R2">>>>},
     fb \in {EmptyDict, ("rxn:R1" :> <<R(-5), R(10)>>)}, mx \in BOOLEAN}

InitParsers == \E c \in ParserCases : InitCase(c)

NextParsers ==
  \/ \E reversible1, reversible2 \in SbmlReversibleAttrs : ParseSbml(reversible1, reversible2)
  \/ \E type1, type2 \in KgmlTypeAttrs : ParseKgml(type1, type2)
  \/ RunFba
  \/ RunOde
  \/ Return

SpecParsers == InitParsers /\ [][NextParsers]_vars

\* Scopes with reactions that have no compound edges or no node, alone and
\* beside reactions that have them
DegenerateScopes ==
  { <<NoId, FALSE, <<>>>>, <<NoId, TRUE, <<"rxn:R3", "rxn:Rx">>>>,
    <<NoId, TRUE, <<"rxn:R3">>>>, <<NoId, TRUE, <<"rxn:Rx", "rxn:R2">>>> }

DegenerateCases ==
  {Case(st, TRUE, Input(sc, fb, NoId, mx, R(1), tp, NoKinetics), scenario) :
     st \in {StoreA, StoreS}, sc \in DegenerateScopes,
     fb \in {EmptyDict, ("rxn:R3" :> <<R(1), R(2)>>)}, mx \in BOOLEAN, tp \in 1..MaxTPoints,
     scenario \in {NoScenario, <<"ko2", <<"enz:E2">>, <<>>, EmptyDict>>}}

InitDegenerate == \E c \in DegenerateCases : InitCase(c)

NextDegenerate ==
  \/ RunFba
  \/ RunOde
  \/ \E mode \in {"fba", "ode"} : RunWhatIf(mode)
  \/ Return

SpecDegenerate == InitDegenerate /\ [][NextDegenerate]_vars

(***************************************************************************)
(* Vocabulary of the properties                                            *)
(***************************************************************************)
\* The enzyme the caller names catalyzes the reaction, by the store's edges
Catalyzes(enzyme_id, rxn_id) ==
  \E i \in DOMAIN store.edges :
    /\ store.edges[i].rel = "CATALYZES"
    /\ store.edges[i].src = resolve_id(store, enzyme_id)
    /\ store.edges[i].dst = rxn_id

\* The reaction is catalyzed by an enzyme of the caller's enzyme_knockouts
KnockedOut(rxn_id) ==
  \E i \in DOMAIN heap[caller_scenario.enzyme_knockouts] :
    Catalyzes(heap[caller_scenario.enzyme_knockouts][i], rxn_id)

\* The product of the factors of the scenario's enzymes that catalyze the reaction
RECURSIVE FactorProduct(_, _)
FactorProduct(factors, rxn_id) ==
  IF factors = <<>> THEN R(1)
  ELSE RMul(IF Catalyzes(Head(factors)[1], rxn_id) THEN Head(factors)[2] ELSE R(1),
            FactorProduct(Tail(factors), rxn_id))

Scaled(rxn_id) ==
  \E i \in DOMAIN heap[caller_scenario.enzyme_factors] :
    Catalyzes(heap[caller_scenario.enzyme_factors][i][1], rxn_id)

EmptyScenario ==
  /\ heap[caller_scenario.enzyme_knockouts] = <<>>
  /\ heap[caller_scenario.enzyme_factors] = <<>>
  /\ heap[caller_scenario.initial_conc_overrides] = EmptyDict

\* The containers an object holds (0, Python's None, is no container)
ConfigContainers(config) ==
  {config.reaction_ids, config.initial_concentrations, config.flux_bounds,
   config.vmax_overrides, config.vmax_factors} \ {0}

ScenarioContainers(scenario) ==
  {scenario.enzyme_knockouts, scenario.enzyme_factors, scenario.initial_conc_overrides}

\* Both simulation runs of a what-if call were made
BothRuns == call.op = "run_whatif" /\ Len(call.runs) = 2

Returned == call.op # "idle" /\ call.raised = ""

(***************************************************************************)
(* C1: run_whatif never changes the caller's SimulationConfig or           *)
(* WhatIfScenario: over any call, in either mode and with any scenario,    *)
(* every container of the caller holds the entries it held before, the     *)
(* two objects hold the containers they held before, and the perturbed     *)
(* config shares no mutable container with the caller's config.            *)
(***************************************************************************)
C1_WhatIfLeavesCallerAlone ==
  [][call'.op = "run_whatif" =>
       /\ heap' = heap
       /\ caller_config' = caller_config
       /\ caller_scenario' = caller_scenario
       /\ ConfigContainers(call'.pcfg)
            \cap (ConfigContainers(caller_config) \cup ScenarioContainers(caller_scenario))
          = {}]_vars

\* A what-if call returned whose perturbed run used other bounds than the
\* baseline although the caller had set bounds: the derived config was written
C1_Witness ==
  /\ BothRuns /\ Returned /\ call.mode = "fba"
  /\ heap[caller_config.flux_bounds] # EmptyDict
  /\ call.runs[2].trace.bounds # call.runs[1].trace.bounds
  /\ ConfigContainers(call.pcfg) # {}

(***************************************************************************)
(* C2: for every config and both modes, run_whatif with a scenario whose   *)
(* knockouts, factors and concentration overrides are all empty returns a  *)
(* perturbed result equal to the baseline result, and every entry of the   *)
(* delta map is 0.                                                         *)
(***************************************************************************)
C2_EmptyScenarioIsNoOp ==
  (call.op = "run_whatif" /\ call.mode \in {"fba", "ode"} /\ EmptyScenario) =>
    /\ call.raised = ""
    /\ call.result.perturbed = call.result.baseline
    /\ \A k \in DOMAIN call.result.delta_fluxes : call.result.delta_fluxes[k] = R(0)
    /\ \A k \in DOMAIN call.result.delta_final_conc : call.result.delta_final_conc[k] = R(0)

(***************************************************************************)
(* C3: in run_whatif with mode 'fba', every in-scope reaction catalyzed by *)
(* a knocked-out enzyme gets the bounds (0, 0) in the perturbed run, also  *)
(* when the caller's flux_bounds or the scenario's enzyme_factors name it, *)
(* and whenever the perturbed result is optimal its flux is 0.             *)
(***************************************************************************)
C3_KnockoutZeroesFbaBounds ==
  (BothRuns /\ call.mode = "fba") =>
    \A j \in DOMAIN call.runs[2].trace.rxn_ids :
      KnockedOut(call.runs[2].trace.rxn_ids[j]) =>
        /\ call.runs[2].trace.bounds[j] = <<R(0), R(0)>>
        /\ call.runs[2].result.status = "optimal" =>
             call.runs[2].result.fluxes[call.runs[2].trace.rxn_ids[j]] = R(0)

\* An optimal perturbed run in which rxn:R1 is knocked out, named by the
\* caller's flux_bounds and by a factor of the scenario, and carried flux before
C3_Witness ==
  /\ BothRuns /\ Returned /\ call.mode = "fba"
  /\ call.result.perturbed.status = "optimal"
  /\ KnockedOut("rxn:R1") /\ Scaled("rxn:R1")
  /\ "rxn:R1" \in DOMAIN heap[caller_config.flux_bounds]
  /\ "rxn:R1" \in DOMAIN call.result.baseline.fluxes
  /\ call.result.baseline.fluxes["rxn:R1"] # R(0)

(***************************************************************************)
(* C4: in run_whatif with mode 'ode', every in-scope reaction catalyzed by *)
(* a knocked-out enzyme has Vmax 0 in the perturbed run's rate law, so its *)
(* rate is 0 in every state, whatever kinetic rows are stored for it and   *)
(* whatever activity factors the scenario also carries.                    *)
(***************************************************************************)
\* The concentration vectors the rate is evaluated on
ProbeStates(n) == [1..n -> {R(0), R(1), R(3)}]

C4_KnockoutZeroesVmax ==
  (BothRuns /\ call.mode = "ode") =>
    \A j \in DOMAIN call.runs[2].trace.specs :
      KnockedOut(call.runs[2].trace.rxn_ids[j]) =>
        /\ call.runs[2].trace.specs[j].vmax = R(0)
        /\ \A y \in ProbeStates(Len(call.runs[2].trace.cpd_ids)) :
             mm_rate(call.runs[2].trace.specs[j], y, call.runs[2].trace.cpd_ids) = R(0)

(***************************************************************************)
(* C5: in run_whatif with mode 'fba', every in-scope reaction that is      *)
(* catalyzed by scenario enzymes carrying activity factors and is not      *)
(* knocked out gets, in the perturbed run, the bounds (lb, ub x product of *)
(* those factors), (lb, ub) being the bounds the baseline run uses for it; *)
(* the lower bound is not changed.                                         *)
(***************************************************************************)
C5_FactorScalesUpperBoundOnly ==
  (BothRuns /\ call.mode = "fba") =>
    \A j \in DOMAIN call.runs[2].trace.rxn_ids :
      LET rxn_id == call.runs[2].trace.rxn_ids[j]
          base == call.runs[1].trace.bounds[j]
      IN  (Scaled(rxn_id) /\ ~KnockedOut(rxn_id)) =>
            call.runs[2].trace.bounds[j] =
              <<base[1],
                RMul(base[2], FactorProduct(heap[caller_scenario.enzyme_factors], rxn_id))>>

(***************************************************************************)
(* C6: run_whatif and MetaKG.simulate_whatif called with a mode other than *)
(* 'fba' or 'ode' raise ValueError before any simulation is run: no        *)
(* baseline run, no perturbed run, no result, no substituted mode.  (A call *)
(* Python rejects for a keyword the signature lacks never reaches the      *)
(* method.)                                                                *)
(***************************************************************************)
C6_InvalidModeRaisesFirst ==
  (/\ call.op \in {"run_whatif", "simulate_whatif"}
   /\ call.mode \notin {"fba", "ode"}
   /\ DOMAIN call.kwargs \subseteq SimulateWhatIfKeywords) =>
    /\ call.raised = "ValueError"
    /\ call.runs = <<>>
    /\ call.result = NoResult

\* run_whatif refused the mode 'sbml' on a config that either simulation accepts
C6_Witness ==
  /\ call.op = "run_whatif" /\ call.mode = "sbml" /\ call.raised = "ValueError"
  /\ scipy_installed
  /\ ScopeRxnIds(store, heap, caller_config) # <<>>
  /\ caller_config.t_points > 1

(***************************************************************************)
(* C7: when the scope resolves to zero reactions (a pathway id that        *)
(* resolves to nothing, a pathway with no reactions, or an empty store),   *)
(* run_fba and run_ode each return status 'error' with an empty payload,   *)
(* without invoking the solver and without raising.                        *)
(***************************************************************************)
\* The pathway the config names contains no reaction of the store
NoReactionInPathway ==
  \A i \in DOMAIN store.edges :
    ~ /\ store.edges[i].rel = "CONTAINS"
      /\ store.edges[i].src = resolve_id(store, caller_config.pathway_id)
      /\ \E k \in DOMAIN store.nodes :
           store.nodes[k].id = store.edges[i].dst /\ store.nodes[k].kind = "reaction"

ZeroReactions ==
  /\ caller_config.reaction_ids = 0 \/ heap[caller_config.reaction_ids] = <<>>
  /\ IF caller_config.pathway_id # NoId
     THEN resolve_id(store, caller_config.pathway_id) = NoId \/ NoReactionInPathway
     ELSE \A k \in DOMAIN store.nodes : store.nodes[k].kind # "reaction"

EmptyPayload(result) ==
  IF call.op = "run_fba"
  THEN result.fluxes = EmptyDict /\ result.shadow_prices = EmptyDict
       /\ result.objective_value = None
  ELSE result.t = <<>> /\ result.concentrations = EmptyDict

C7_EmptyScopeIsAnError ==
  (call.op \in {"run_fba", "run_ode"} /\ ZeroReactions) =>
    /\ call.raised = ""
    /\ call.result.status = "error"
    /\ EmptyPayload(call.result)
    /\ call.runs[1].trace.solver_calls = 0

\* run_ode was called, scipy present, for a pathway of a filled store that
\* holds no reaction
C7_Witness ==
  /\ call.op = "run_ode" /\ scipy_installed
  /\ caller_config.pathway_id = "pwy:P0" /\ caller_config.reaction_ids = 0
  /\ store = StoreA
  /\ call.result.status = "error"

(***************************************************************************)
(* C8: for every SimulationConfig (any scope, any t_end, any t_points),    *)
(* run_ode returns an ODEResult whose status is 'ok', 'failed' or 'error'; *)
(* no exception propagates to the caller.                                  *)
(***************************************************************************)
C8_RunOdeAlwaysReturnsAStatus ==
  call.op = "run_ode" =>
    /\ call.raised = ""
    /\ call.result.status \in {"ok", "failed", "error"}

(***************************************************************************)
(* C9: for every ordered reaction-id scope, whether or not an id occurs in *)
(* it more than once, and every position j in it, column j of S holds for  *)
(* each compound the sum of the stoich values of that reaction's           *)
(* PRODUCT_OF edges to the compound minus the sum of the stoich values of  *)
(* its SUBSTRATE_OF edges from the compound, and 0 for any other compound. *)
(***************************************************************************)
RECURSIVE NetCoefficient(_, _, _)
NetCoefficient(edges, rxn_id, cpd_id) ==
  IF edges = <<>> THEN 0
  ELSE (IF Head(edges).rel = "PRODUCT_OF" /\ Head(edges).src = rxn_id
           /\ Head(edges).dst = cpd_id
        THEN StoichVal(Head(edges))
        ELSE IF Head(edges).rel = "SUBSTRATE_OF" /\ Head(edges).src = cpd_id
                /\ Head(edges).dst = rxn_id
        THEN -StoichVal(Head(edges))
        ELSE 0)
       + NetCoefficient(Tail(edges), rxn_id, cpd_id)

C9_ColumnIsNetStoichiometry ==
  (call.op \in {"run_fba", "run_ode"}) =>
    \A j \in DOMAIN call.runs[1].trace.rxn_ids :
      \A i \in DOMAIN call.runs[1].trace.cpd_ids :
        call.runs[1].trace.S[i][j] =
          NetCoefficient(store.edges, call.runs[1].trace.rxn_ids[j],
                         call.runs[1].trace.cpd_ids[i])

(***************************************************************************)
(* C10: in run_fba, for every reaction in scope: if config.flux_bounds has *)
(* an entry for it, that entry is the bound used; otherwise the bound is   *)
(* (0, 1000) when the reaction is marked irreversible and (-1000, 1000)    *)
(* when it is reversible or carries no direction metadata.                 *)
(***************************************************************************)
\* The direction a reaction's stored metadata gives, "" when it gives none
DirectionOf(rxn_id) ==
  IF ~HasNode(store, rxn_id) THEN ""
  ELSE LET blob == node(store, rxn_id).stoichiometry
       IN  IF blob = NullBlob THEN ""
           ELSE IF LoadsDirection(blob)[1] THEN LoadsDirection(blob)[2] ELSE ""

FeasibleFluxes(trace) ==
  LET n == Len(trace.bounds)
      scale == LcmDen(trace.bounds)
      lb == [j \in 1..n |-> ToInt(trace.bounds[j][1], scale)]
      ub == [j \in 1..n |-> ToInt(trace.bounds[j][2], scale)]
  IN  {[j \in 1..n |-> Norm(v[j], scale)] : v \in LpFeasible(trace.S, lb, ub, n)}

ObjectiveInScope ==
  /\ call.op = "run_fba"
  /\ caller_config.objective_reaction # NoId
  /\ caller_config.objective_reaction \in Range(call.runs[1].trace.rxn_ids)
  /\ call.result.status = "optimal"

C11_ObjectiveValueIsObjectiveFlux ==
  ObjectiveInScope =>
    LET obj == caller_config.objective_reaction
        trace == call.runs[1].trace
    IN  /\ call.result.objective_value = call.result.fluxes[obj]
        /\ \A v \in FeasibleFluxes(trace) : \A j \in DOMAIN trace.rxn_ids :
             trace.rxn_ids[j] = obj =>
               IF caller_config.maximize THEN RLe(v[j], call.result.fluxes[obj])
               ELSE RLe(call.result.fluxes[obj], v[j])

(***************************************************************************)
(* C12: for the pathway with exactly the two irreversible reactions        *)
(* R1: Glucose + ATP -> G6P + ADP and R2: G6P -> Pyruvate, run_fba with    *)
(* maximize=True and no objective reaction returns status 'optimal' with   *)
(* nonzero flux on both R1 and R2 and objective_value > 0.                 *)
(***************************************************************************)
\* run_fba was called on the two-reaction pathway, maximizing the surrogate
TwoReactionPathwayFba ==
  /\ call.op = "run_fba" /\ scipy_installed
  /\ store = StoreG
  /\ ScopeRxnIds(store, heap, caller_config) = <<"rxn:R1", "rxn:R2">>
  /\ caller_config.maximize /\ caller_config.objective_reaction = NoId
  /\ heap[caller_config.flux_bounds] = EmptyDict

C12_LiteralPathwayCarriesFlux ==
  TwoReactionPathwayFba =>
    /\ call.result.status = "optimal"
    /\ call.result.fluxes["rxn:R1"] # R(0)
    /\ call.result.fluxes["rxn:R2"] # R(0)
    /\ RLt(R(0), call.result.objective_value)

\* C12 as amended: on that pathway run_fba returns status 'optimal' with flux 0
\* on both R1 and R2 and objective_value 0: S v = 0 balances every compound of
\* the scope, Glucose and Pyruvate included, and leaves v = 0 alone
C12_LiteralPathwayIsBlocked ==
  TwoReactionPathwayFba =>
    /\ call.result.status = "optimal"
    /\ call.result.fluxes = ("rxn:R1" :> R(0) @@ "rxn:R2" :> R(0))
    /\ call.result.objective_value = R(0)

\* The run was made through the pathway scope, with bounds (0, 1000) on both
C12_Witness ==
  /\ TwoReactionPathwayFba
  /\ caller_config.pathway_id = "pwy:P1" /\ caller_config.reaction_ids = 0
  /\ call.runs[1].trace.bounds = << <<R(0), R(1000)>>, <<R(0), R(1000)>> >>
  /\ Len(call.runs[1].trace.cpd_ids) = 5

(***************************************************************************)
(* C13: run_whatif's delta map has exactly one entry for every key present *)
(* in the baseline or in the perturbed payload and its value is perturbed  *)
(* minus baseline: in FBA mode flux minus flux with a missing flux counted *)
(* as 0.0 (so a non-optimal perturbed run gives minus the baseline flux    *)
(* for every reaction), in ODE mode the last sample of the perturbed       *)
(* trajectory minus the last sample of the baseline trajectory; the map of *)
(* the other mode is empty.                                                *)
(***************************************************************************)
\* run_whatif returned a result
WhatIfReturned == call.op = "run_whatif" /\ call.raised = "" /\ Len(call.runs) = 2

C13_DeltaIsPerturbedMinusBaseline ==
  WhatIfReturned =>
    LET b == call.runs[1].result
        p == call.runs[2].result
        df == call.result.delta_fluxes
        dc == call.result.delta_final_conc
    IN  /\ call.result.baseline = b /\ call.result.perturbed = p
        /\ call.mode = "fba" =>
             /\ DOMAIN df = (DOMAIN b.fluxes) \cup (DOMAIN p.fluxes)
             /\ \A k \in DOMAIN df :
                  df[k] = RSub(IF k \in DOMAIN p.fluxes THEN p.fluxes[k] ELSE R(0),
                               IF k \in DOMAIN b.fluxes THEN b.fluxes[k] ELSE R(0))
             /\ p.status # "optimal" =>
                  \A k \in DOMAIN b.fluxes : df[k] = RNeg(b.fluxes[k])
             /\ dc = EmptyDict
        /\ call.mode = "ode" =>
             /\ DOMAIN dc = (DOMAIN b.concentrations) \cup (DOMAIN p.concentrations)
             /\ \A k \in DOMAIN dc :
                  /\ k \in DOMAIN p.concentrations /\ k \in DOMAIN b.concentrations
                  /\ LET pl == p.concentrations[k][Len(p.concentrations[k])]
                         bl == b.concentrations[k][Len(b.concentrations[k])]
                     IN  dc[k] = IF pl = bl THEN R(0) ELSE [minuend |-> pl, subtrahend |-> bl]
             /\ df = EmptyDict

\* An FBA what-if whose baseline is optimal with flux through rxn:R2 and whose
\* perturbed run is infeasible
C13_Witness ==
  /\ WhatIfReturned /\ call.mode = "fba"
  /\ call.result.baseline.status = "optimal"
  /\ call.result.perturbed.status = "infeasible"
  /\ "rxn:R2" \in DOMAIN call.result.baseline.fluxes
  /\ call.result.baseline.fluxes["rxn:R2"] # R(0)
  /\ call.result.delta_fluxes["rxn:R2"] = RNeg(call.result.baseline.fluxes["rxn:R2"])

(***************************************************************************)
(* C14: for every scenario whose knocked-out or factor-scaled enzymes      *)
(* catalyze no reaction in the config's scope (including enzyme ids that   *)
(* resolve to no node) and that overrides no concentration, run_whatif     *)
(* raises nothing and returns a perturbed result equal to the baseline     *)
(* with every delta 0, in both modes.                                      *)
(***************************************************************************)
\* The scenario names at least one enzyme, and no enzyme it names catalyzes a
\* reaction of the scope
OutsideScenario ==
  LET scope == Range(ScopeRxnIds(store, heap, caller_config))
      knockouts == heap[caller_scenario.enzyme_knockouts]
      factors == heap[caller_scenario.enzyme_factors]
  IN  /\ knockouts # <<>> \/ factors # <<>>
      /\ heap[caller_scenario.initial_conc_overrides] = EmptyDict
      /\ \A r \in scope :
           /\ \A i \in DOMAIN knockouts : ~Catalyzes(knockouts[i], r)
           /\ \A i \in DOMAIN factors : ~Catalyzes(factors[i][1], r)

C14_OutsideEnzymesAreNoOp ==
  (call.op = "run_whatif" /\ call.mode \in {"fba", "ode"} /\ OutsideScenario) =>
    /\ call.raised = ""
    /\ call.result.perturbed = call.result.baseline
    /\ \A k \in DOMAIN call.result.delta_fluxes : call.result.delta_fluxes[k] = R(0)
    /\ \A k \in DOMAIN call.result.delta_final_conc : call.result.delta_final_conc[k] = R(0)

(***************************************************************************)
(* C15: for a fixed store content and a fixed config, any two invocations  *)
(* of run_fba (and any two of run_ode), whatever calls lie between them,   *)
(* build the same reaction order, the same compound order (sorted by id),  *)
(* the same matrix S, the same bounds, objective vector and kinetic        *)
(* parameters, and return equal results.                                   *)
(***************************************************************************)
\* The ids stand in Python's string order
SortedById(ids) ==
  \A i, j \in DOMAIN ids :
    i < j => FirstIndex(IdOrder, ids[i]) < FirstIndex(IdOrder, ids[j])

Alone(op, mode) ==
  LET rec == IF op = "run_fba"
             THEN run_fba(store, heap, caller_config, scipy_installed)
             ELSE IF op = "run_ode"
             THEN run_ode(store, heap, caller_config, scipy_installed)
             ELSE run_whatif(store, heap, caller_config, caller_scenario, mode,
                             scipy_installed)
  IN  <<rec.raised, rec.result>>

C16_ThreadsDoNotInterfere ==
  [][/\ store' = store /\ heap' = heap
     /\ caller_config' = caller_config /\ caller_scenario' = caller_scenario
     /\ \A t \in Threads :
          (threads[t].pc # "done" /\ threads'[t].pc = "done") =>
            <<threads'[t].raised, threads'[t].result>>
              = Alone(threads'[t].op, threads'[t].mode)]_vars

(***************************************************************************)
(* C17: the solver options of simulate_ode and simulate_whatif             *)
(***************************************************************************)
OdeSolverKeywords == {"ode_method", "ode_rtol", "ode_atol", "ode_max_step"}

\* An orchestrator call that passed solver options and nothing else unknown
CalledWithSolverOptions ==
  /\ call.op \in {"simulate_ode", "simulate_whatif"}
  /\ call.kwargs # EmptyDict
  /\ DOMAIN call.kwargs \subseteq OdeSolverKeywords

\* C17: MetaKG.simulate_ode accepts ode_method, ode_rtol, ode_atol and
\* ode_max_step, and MetaKG.simulate_whatif accepts ode_method: a call that
\* passes them is not rejected for its keywords, and a simulate_ode call with
\* ode_method = "BDF" that comes back returns status "ok" with t_points
\* time samples.
C17_SolverOptionsAreAccepted ==
  CalledWithSolverOptions =>
    /\ call.raised # "TypeError"
    /\ (call.op = "simulate_ode" /\ call.raised = "" /\ call.kwargs["ode_method"] = "BDF") =>
         (call.result.status = "ok" => Len(call.result.t) = caller_config.t_points)

(***************************************************************************)
(* C18: the solver run_ode uses by default                                 *)
(***************************************************************************)
StiffCapable == {"BDF", "Radau"}

\* np.inf, the max_step of a solver left to its own step-size control
NoMaxStep == None

\* The options of every integration the last call ran
SolverOptionsUsed ==
  {call.runs[i].trace.solver : i \in {j \in DOMAIN call.runs : call.runs[j].trace.solver # <<>>}}

\* C18: with no solver option given by the caller, run_ode integrates with a
\* stiff-capable method (BDF or Radau) or imposes no fixed max_step; it does
\* not cap the step at t_end / 50.
C18_DefaultSolverIsStiffSafe ==
  \A o \in SolverOptionsUsed :
    /\ o.method \in StiffCapable \/ o.max_step = NoMaxStep
    /\ o.max_step # RDiv(caller_config.t_end, R(50))

(***************************************************************************)
(* C19, C20: find_shortest_path                                            *)
(***************************************************************************)
PathAsked == call.op = "find_shortest_path"

PathReturned == PathAsked /\ "path" \in DOMAIN call.result

\* The ids of the nodes on the returned path
PathIdsReturned == [i \in DOMAIN call.result.path |-> call.result.path[i].id]

KindIs(id, kind) == HasNode(store, id) /\ node(store, id).kind = kind

\* a is a compound and a substrate of the reaction b, or a is a reaction and
\* has the compound b as a product
DirectedStep(a, b) ==
  \E e \in Range(store.edges) :
    /\ e.src = a /\ e.dst = b
    /\ \/ KindIs(a, "compound") /\ e.rel = "SUBSTRATE_OF" /\ KindIs(b, "reaction")
       \/ KindIs(a, "reaction") /\ e.rel = "PRODUCT_OF" /\ KindIs(b, "compound")

IsRoute(ids, from_id, to_id) ==
  /\ ids # <<>> /\ ids[1] = from_id /\ ids[Len(ids)] = to_id
  /\ \A i \in 1..(Len(ids) - 1) : DirectedStep(ids[i], ids[i + 1])

ReactionsOn(ids) == Cardinality({i \in DOMAIN ids : KindIs(ids[i], "reaction")})

\* Every route from from_id that visits no node twice and has at most n steps
RECURSIVE RoutesFrom(_, _)
RoutesFrom(from_id, n) ==
  IF n = 0 THEN {<<from_id>>}
  ELSE With(RoutesFrom(from_id, n - 1), LAMBDA shorter :
         shorter \cup
         UNION {{Append(r, b) : b \in {x \in PathIds(store) \ Range(r) :
                                          DirectedStep(r[Len(r)], x)}} : r \in shorter})

\* The routes of the store between the two ids of the call
RoutesAsked ==
  {r \in RoutesFrom(call.kwargs.from_id, Len(store.nodes)) :
     r[Len(r)] = call.kwargs.to_id}

\* C19: find_shortest_path(from_id, to_id, max_hops=k) never returns a path
\* with more than k reaction nodes; when every directed route from from_id to
\* to_id needs more than k reactions, or there is none, it returns
\* {"error": "no path found", "searched_hops": k}.
C19_PathWithinMaxHops ==
  PathAsked =>
    /\ PathReturned =>
         Cardinality({i \in DOMAIN call.result.path :
                        call.result.path[i].kind = "reaction"}) <= call.kwargs.max_hops
    /\ (\A r \in RoutesAsked : ReactionsOn(r) > call.kwargs.max_hops) =>
         call.result = [error |-> "no path found", searched_hops |-> call.kwargs.max_hops]

\* C20: a returned path is a directed route from from_id to to_id, its hops
\* value is the number of reaction nodes on it, and no route of the store
\* between the two has fewer; from_id = to_id gives hops 0.
C20_PathIsShortestRoute ==
  PathReturned =>
    IF call.kwargs.from_id = call.kwargs.to_id
    THEN call.result.hops = 0 /\ Range(PathIdsReturned) \subseteq {call.kwargs.from_id}
    ELSE /\ IsRoute(PathIdsReturned, call.kwargs.from_id, call.kwargs.to_id)
         /\ call.result.hops = ReactionsOn(PathIdsReturned)
         /\ \A r \in RoutesAsked : ReactionsOn(r) >= call.result.hops

\* a two-reaction path returned although a longer route is stored first
C20_Witness ==
  /\ PathReturned
  /\ call.result.hops = 2
  /\ \E r \in RoutesAsked : ReactionsOn(r) > 2

(***************************************************************************)
(* C21: Vmax overrides                                                     *)
(***************************************************************************)
\* A run_ode call that got as far as building its rate laws
OdeRan == call.op = "run_ode" /\ call.runs[1].trace.specs # <<>>

\* The entries of a dict whose key is among ids
Restricted(d, ids) == [k \in DOMAIN d \cap ids |-> d[k]]

\* The heap, had the caller left the out-of-scope entries out of vmax_overrides
WithoutOutsideOverrides ==
  [heap EXCEPT ![caller_config.vmax_overrides] =
     Restricted(heap[caller_config.vmax_overrides], Range(call.runs[1].trace.rxn_ids))]

\* C21: for every in-scope reaction with an entry in config.vmax_overrides and
\* none in config.vmax_factors, the Vmax of the ODE rate law equals the override
\* value, for every value >= 0 and whatever kinetic rows are stored; an
\* override for a reaction outside the scope has no effect.
C21_OverrideReplacesVmax ==
  OdeRan =>
    /\ \A j \in DOMAIN call.runs[1].trace.specs :
         LET rxn_id == call.runs[1].trace.rxn_ids[j]
         IN  (/\ rxn_id \in DOMAIN heap[caller_config.vmax_overrides]
              /\ rxn_id \notin DOMAIN heap[caller_config.vmax_factors]) =>
               call.runs[1].trace.specs[j].vmax = heap[caller_config.vmax_overrides][rxn_id]
    /\ call.runs[1].result
         = run_ode(store, WithoutOutsideOverrides, caller_config, scipy_installed).result

(***************************************************************************)
(* C22: Vmax factors                                                       *)
(***************************************************************************)
\* The Vmax values stored for the reaction
StoredVmaxs(rxn_id) ==
  LET rows == kinetic_params_for_reaction(store, rxn_id)
  IN  SelectSeq([i \in DOMAIN rows |-> rows[i].vmax], LAMBDA v : ~IsNone(v))

\* The Vmax before any factor: the override if present, else the mean of the
\* stored Vmax rows, else the default
BaseVmax(overrides, rxn_id) ==
  IF rxn_id \in DOMAIN overrides THEN overrides[rxn_id]
  ELSE IF StoredVmaxs(rxn_id) # <<>> THEN Mean(StoredVmaxs(rxn_id))
  ELSE DEFAULT_VMAX

\* The overrides of the perturbed run: a knocked-out reaction has the override 0
PerturbedOverrides ==
  [r \in DOMAIN heap[caller_config.vmax_overrides]
         \cup {x \in Range(call.runs[2].trace.rxn_ids) : KnockedOut(x)} |->
     IF KnockedOut(r) THEN R(0) ELSE heap[caller_config.vmax_overrides][r]]

\* Both runs of a what-if call in mode 'ode' built their rate laws
WhatIfOdeRan ==
  /\ BothRuns /\ call.mode = "ode"
  /\ call.runs[2].trace.specs # <<>>

\* C22: for every in-scope reaction with a factor f >= 0 in config.vmax_factors
\* the Vmax of the ODE rate law is f times the Vmax without the factor (the
\* override if present, else the mean of the stored Vmax rows, else 1.0); in
\* the perturbed run of a what-if call the factor is the product of the
\* config's factor and the factors of all scenario enzymes catalyzing the
\* reaction.
C22_FactorScalesVmax ==
  /\ OdeRan =>
       \A j \in DOMAIN call.runs[1].trace.specs :
         LET rxn_id == call.runs[1].trace.rxn_ids[j]
         IN  rxn_id \in DOMAIN heap[caller_config.vmax_factors] =>
               call.runs[1].trace.specs[j].vmax
                 = RMul(heap[caller_config.vmax_factors][rxn_id],
                        BaseVmax(heap[caller_config.vmax_overrides], rxn_id))
  /\ WhatIfOdeRan =>
       \A j \in DOMAIN call.runs[2].trace.specs :
         LET rxn_id == call.runs[2].trace.rxn_ids[j]
         IN  (rxn_id \in DOMAIN heap[caller_config.vmax_factors] \/ Scaled(rxn_id)) =>
               call.runs[2].trace.specs[j].vmax
                 = RMul(RMul(DictGet(heap[caller_config.vmax_factors], rxn_id, R(1)),
                             FactorProduct(heap[caller_scenario.enzyme_factors], rxn_id)),
                        BaseVmax(PerturbedOverrides, rxn_id))

(***************************************************************************)
(* C23: the default FBA objective                                          *)
(***************************************************************************)
\* The runs of the last call that set up a linear programme
FbaRuns ==
  {i \in DOMAIN call.runs :
     call.op \in {"run_fba", "run_whatif"} /\ call.runs[i].trace.objective # <<>>}

\* objective_reaction is unset or names no reaction of the run's scope
SurrogateObjective(i) ==
  \/ caller_config.objective_reaction = NoId
  \/ caller_config.objective_reaction \notin Range(call.runs[i].trace.rxn_ids)

ObjectiveSign == IF caller_config.maximize THEN -1 ELSE 1

\* The sum of the returned fluxes of the reactions whose lower bound is >= 0,
\* each reaction of the flux map counted once
ForwardFluxSum(i) ==
  LET tr == call.runs[i].trace
  IN  SeqSum([j \in DOMAIN tr.rxn_ids |->
                IF j = LastIndex(tr.rxn_ids, tr.rxn_ids[j]) /\ RLe(R(0), tr.bounds[j][1])
                THEN call.runs[i].result.fluxes[tr.rxn_ids[j]] ELSE R(0)])

\* C23: when objective_reaction is unset or not in scope, the weight of a
\* reaction is sign/n (n reactions in scope, sign -1 when maximizing, +1 when
\* minimizing) if its lower bound is >= 0 and 0 otherwise; on an optimal result
\* objective_value is (1/n) times the sum of the fluxes of the reactions whose
\* lower bound is >= 0, so a scope of only reversible reactions without bound
\* overrides has objective_value 0.
C23_SurrogateObjective ==
  \A i \in FbaRuns :
    SurrogateObjective(i) =>
      LET tr == call.runs[i].trace
          n == Len(tr.rxn_ids)
      IN  /\ tr.objective[2] = n
          /\ \A j \in DOMAIN tr.rxn_ids :
               tr.objective[1][j] = IF RLe(R(0), tr.bounds[j][1]) THEN ObjectiveSign ELSE 0
          /\ call.runs[i].result.status = "optimal" =>
               /\ call.runs[i].result.objective_value = RDiv(ForwardFluxSum(i), R(n))
               /\ (\A j \in DOMAIN tr.rxn_ids :
                     tr.bounds[j] = <<R(-DEFAULT_FLUX_CAP), R(DEFAULT_FLUX_CAP)>>) =>
                    call.runs[i].result.objective_value = R(0)

(***************************************************************************)
(* C24: the forward rate                                                   *)
(***************************************************************************)
\* The traces of the calls that built rate laws
RateLawTraces ==
  {call.runs[i].trace : i \in {i \in DOMAIN call.runs : call.runs[i].trace.specs # <<>>}}

\* Concentrations to evaluate a rate law at, negative ones included
RateProbes(n) == [1..n -> {R(-1), R(0), R(2)}]

\* The substrates of column j: the compounds it consumes
SubstrateRows(tr, j) == {i \in DOMAIN tr.cpd_ids : tr.S[i][j] < 0}

\* The Km of the stored kinetic rows of a reaction that name the compound
StoredKms(rxn_id, cpd_id) ==
  LET rows == kinetic_params_for_reaction(store, rxn_id)
  IN  SelectSeq([i \in DOMAIN rows |->
                   IF rows[i].substrate_id = cpd_id THEN rows[i].km ELSE None],
                LAMBDA k : ~IsNone(k))

\* The stored per-substrate Km if a kinetic row names the substrate, else the
\* Km of the reaction
KmEffective(tr, j, i) ==
  LET kms == StoredKms(tr.rxn_ids[j], tr.cpd_ids[i])
  IN  IF kms # <<>> THEN kms[Len(kms)] ELSE tr.specs[j].km_default

\* The product of conc / (Km_effective + conc) over the substrates among the
\* first n compounds, conc clamped at zero; 1 when there is none
RECURSIVE MichaelisMentenProduct(_, _, _, _)
MichaelisMentenProduct(tr, j, y, n) ==
  IF n = 0 THEN R(1)
  ELSE RMul(IF n \in SubstrateRows(tr, j)
            THEN RDiv(RMax(y[n], R(0)), RAdd(KmEffective(tr, j, n), RMax(y[n], R(0))))
            ELSE R(1),
            MichaelisMentenProduct(tr, j, y, n - 1))

\* The columns whose rate shows in the derivative of some compound
Participating(tr) == {j \in DOMAIN tr.rxn_ids : \E i \in DOMAIN tr.cpd_ids : tr.S[i][j] # 0}

\* The forward rate of column j at y, read off the derivative _dydt gives a
\* compound of the reaction when the reaction is alone and has no reverse term
ForwardRateAt(tr, j, y) ==
  LET i == CHOOSE i \in DOMAIN tr.cpd_ids : tr.S[i][j] # 0
  IN  RDiv(dydt(<<[tr.specs[j] EXCEPT !.reversible = FALSE]>>, y, tr.cpd_ids)[i], R(tr.S[i][j]))

\* The rate of the formula
FormulaRateAt(tr, j, y) ==
  RMul(tr.specs[j].vmax, MichaelisMentenProduct(tr, j, y, Len(tr.cpd_ids)))

\* The forward rate of every reaction with at least one substrate is
\* Vmax times the product over its substrates of conc / (Km_effective + conc),
\* conc clamped at zero and Km_effective the stored per-substrate Km if a
\* kinetic row names the substrate, else the reaction's Km; a reaction without
\* substrates has rate 0.
C24_ForwardRateWithSubstrates ==
  \A tr \in RateLawTraces : \A j \in Participating(tr) :
    \A y \in RateProbes(Len(tr.cpd_ids)) :
      ForwardRateAt(tr, j, y)
        = IF SubstrateRows(tr, j) = {} THEN R(0) ELSE FormulaRateAt(tr, j, y)

\* A rate law with a non-zero Vmax was built for a reaction one of whose
\* substrates has a stored Km of its own, different from the reaction's Km
C24_Witness ==
  \E tr \in RateLawTraces : \E j \in Participating(tr) :
    /\ tr.specs[j].vmax # R(0)
    /\ \E i \in SubstrateRows(tr, j) :
         /\ StoredKms(tr.rxn_ids[j], tr.cpd_ids[i]) # <<>>
         /\ KmEffective(tr, j, i) # tr.specs[j].km_default

\* C24: the forward rate of a reaction is Vmax times the product over its
\* substrates of conc / (Km_effective + conc), with conc clamped at zero and
\* Km_effective the stored per-substrate Km if a kinetic row names the
\* substrate, else the reaction's Km; this holds for any number of substrates,
\* the product over no substrates being 1.
C24_ForwardRate ==
  \A tr \in RateLawTraces : \A j \in Participating(tr) :
    \A y \in RateProbes(Len(tr.cpd_ids)) :
      ForwardRateAt(tr, j, y) = FormulaRateAt(tr, j, y)

(***************************************************************************)
(* C25: one irreversible reaction A -> B                                   *)
(***************************************************************************)
\* The scope of the trace is one irreversible reaction that consumes one unit
\* of the compound of row a and produces one unit of the compound of row b
SingleIrreversibleStep(tr, a, b) ==
  /\ Len(tr.rxn_ids) = 1 /\ DOMAIN tr.cpd_ids = {a, b}
  /\ ~tr.specs[1].reversible
  /\ tr.S[a][1] = -1 /\ tr.S[b][1] = 1

\* C25: for a scope of a single irreversible reaction A -> B with coefficients
\* 1, in every state d[A]/dt <= 0, d[B]/dt >= 0 and d[A]/dt + d[B]/dt = 0, and
\* d[A]/dt = 0 whenever [A] <= 0.
C25_IrreversibleStepConserves ==
  \A tr \in RateLawTraces : \A a, b \in DOMAIN tr.cpd_ids :
    SingleIrreversibleStep(tr, a, b) =>
      \A y \in RateProbes(2) :
        LET dy == dydt(tr.specs, y, tr.cpd_ids)
        IN  /\ RLe(dy[a], R(0)) /\ RLe(R(0), dy[b])
            /\ RAdd(dy[a], dy[b]) = R(0)
            /\ RLe(y[a], R(0)) => dy[a] = R(0)

\* A rate law was built for such a scope, and A is consumed at some state in
\* which B is present
C25_Witness ==
  \E tr \in RateLawTraces : \E a, b \in DOMAIN tr.cpd_ids :
    /\ SingleIrreversibleStep(tr, a, b)
    /\ \E y \in RateProbes(2) :
         RLt(R(0), y[b]) /\ RLt(dydt(tr.specs, y, tr.cpd_ids)[a], R(0))

(***************************************************************************)
(* C26: reactions without compound edges                                   *)
(***************************************************************************)
\* The reaction has no node in the store, or no SUBSTRATE_OF edge into it and
\* no PRODUCT_OF edge out of it
NoCompoundEdges(rxn_id) ==
  \/ ~HasNode(store, rxn_id)
  \/ \A k \in DOMAIN store.edges :
       /\ ~(store.edges[k].rel = "SUBSTRATE_OF" /\ store.edges[k].dst = rxn_id)
       /\ ~(store.edges[k].rel = "PRODUCT_OF" /\ store.edges[k].src = rxn_id)

\* The runs of run_fba, run_ode and run_whatif that built a stoichiometric matrix
MatrixRuns ==
  {i \in DOMAIN call.runs :
     call.op \in {"run_fba", "run_ode", "run_whatif"} /\ call.runs[i].trace.rxn_ids # <<>>}

\* The rate laws of a trace but that of column j
SpecsWithout(tr, j) == SubSeq(tr.specs, 1, j - 1) \o SubSeq(tr.specs, j + 1, Len(tr.specs))

\* C26: a reaction in scope that has no substrate or product edges, or whose
\* node is missing from the store, keeps its own all-zero column in S and its
\* own entry in the flux map of an optimal FBA result; run_fba and run_ode
\* complete with a structured result; the reaction adds no mass-balance
\* constraint and no term to the derivative of any compound.
C26_DegenerateReactionIsHarmless ==
  \A i \in MatrixRuns :
    LET tr == call.runs[i].trace
    IN  \A j \in DOMAIN tr.rxn_ids :
          NoCompoundEdges(tr.rxn_ids[j]) =>
            /\ \A row \in DOMAIN tr.S : Len(tr.S[row]) = Len(tr.rxn_ids) /\ tr.S[row][j] = 0
            /\ call.runs[i].raised = ""
            /\ call.runs[i].result.status \in {"optimal", "infeasible", "unbounded", "ok", "failed", "error"}
            /\ call.runs[i].result.status = "optimal" =>
                 tr.rxn_ids[j] \in DOMAIN call.runs[i].result.fluxes
            /\ tr.specs # <<>> =>
                 \A y \in RateProbes(Len(tr.cpd_ids)) :
                   dydt(tr.specs, y, tr.cpd_ids) = dydt(SpecsWithout(tr, j), y, tr.cpd_ids)

(***************************************************************************)
(* C27: reactions the parsers store as not reversible                      *)
(***************************************************************************)
\* The directions the parsers write for a reaction that is not reversible
NotReversibleDirections ==
  {sbml_direction(a) : a \in {NoAttr, "false"}} \cup {kgml_direction(a) : a \in {NoAttr, "irreversible"}}

\* The reaction's node holds a blob with such a direction
StoredNotReversible(rxn_id) ==
  /\ HasNode(store, rxn_id)
  /\ \E d \in NotReversibleDirections : node(store, rxn_id).stoichiometry = DumpsDirection(d)

\* C27: every reaction a parser stores as not reversible (KGML 'irreversible',
\* SBML 'forward' when the reversible attribute is false or absent) is
\* irreversible for the simulator: without an entry in flux_bounds its FBA
\* bounds are (0, 1000), and its ODE rate has no reverse term.
C27_ParsedDirectionIsHonoured ==
  \A i \in MatrixRuns :
    LET tr == call.runs[i].trace
    IN  \A j \in DOMAIN tr.rxn_ids :
          StoredNotReversible(tr.rxn_ids[j]) =>
            /\ (tr.bounds # <<>> /\ tr.rxn_ids[j] \notin DOMAIN heap[caller_config.flux_bounds]) =>
                 tr.bounds[j] = <<R(0), R(DEFAULT_FLUX_CAP)>>
            /\ tr.specs # <<>> =>
                 \A y \in RateProbes(Len(tr.cpd_ids)) :
                   mm_rate(tr.specs[j], y, tr.cpd_ids)
                     = RMax(R(0), forward_rate(tr.specs[j], y, tr.cpd_ids))

(***************************************************************************)
(* C28: without caller bounds the zero flux vector is feasible             *)
(***************************************************************************)
\* The caller's config has no entry in flux_bounds
NoCallerBounds == heap[caller_config.flux_bounds] = EmptyDict

\* Every activity factor of the caller's scenario is >= 0
FactorsNonNegative ==
  \A k \in DOMAIN heap[caller_scenario.enzyme_factors] :
    RLe(R(0), heap[caller_scenario.enzyme_factors][k][2])

\* The all-zero flux vector satisfies S.v = 0 and every bound of the trace,
\* and every bound is a finite number
ZeroFluxIsFeasible(tr) ==
  LET zero == [j \in DOMAIN tr.rxn_ids |-> 0]
  IN  /\ \A i \in DOMAIN tr.S : Dot(tr.S[i], zero, Len(tr.rxn_ids)) = 0
      /\ \A j \in DOMAIN tr.bounds :
           /\ ~IsNone(tr.bounds[j][1]) /\ ~IsNone(tr.bounds[j][2])
           /\ RLe(tr.bounds[j][1], R(0)) /\ RLe(R(0), tr.bounds[j][2])

\* C28: with a non-empty scope and no entry in config.flux_bounds, the
\* all-zero flux vector satisfies S.v = 0 and every bound, and all bounds are
\* finite, so run_fba never reports 'infeasible' or 'unbounded'; the same
\* holds for the perturbed run of a what-if scenario made only of knockouts
\* and non-negative activity factors.
C28_ZeroFluxFeasibleWithoutCallerBounds ==
  (NoCallerBounds /\ FactorsNonNegative) =>
    \A i \in FbaRuns :
      /\ ZeroFluxIsFeasible(call.runs[i].trace)
      /\ call.runs[i].result.status \notin {"infeasible", "unbounded"}

\* A what-if call without caller bounds whose scenario knocks a reaction out
\* and scales another ended with an optimal perturbed run
C28_Witness ==
  /\ BothRuns /\ call.mode = "fba" /\ NoCallerBounds /\ FactorsNonNegative
  /\ call.runs[2].result.status = "optimal"
  /\ \E j, k \in DOMAIN call.runs[2].trace.rxn_ids :
       /\ KnockedOut(call.runs[2].trace.rxn_ids[j])
       /\ Scaled(call.runs[2].trace.rxn_ids[k]) /\ ~KnockedOut(call.runs[2].trace.rxn_ids[k])
       /\ call.runs[2].trace.bounds[k] # call.runs[1].trace.bounds[k]

(***************************************************************************)
(* C29: inhibition never raises the optimum                                *)
(***************************************************************************)
\* Every activity factor of the caller's scenario lies between 0 and 1
FactorsWithinUnit ==
  \A k \in DOMAIN heap[caller_scenario.enzyme_factors] :
    /\ RLe(R(0), heap[caller_scenario.enzyme_factors][k][2])
    /\ RLe(heap[caller_scenario.enzyme_factors][k][2], R(1))

\* C29: in run_whatif with mode 'fba', maximize=True and no caller
\* flux_bounds, a scenario made only of enzyme knockouts and activity factors
\* between 0 and 1 never gives a perturbed objective_value greater than the
\* baseline objective_value, whether the objective is a named in-scope
\* reaction or the default surrogate.
C29_InhibitionNeverRaisesObjective ==
  (/\ BothRuns /\ call.mode = "fba" /\ caller_config.maximize
   /\ NoCallerBounds /\ FactorsWithinUnit
   /\ call.runs[1].result.status = "optimal" /\ call.runs[2].result.status = "optimal") =>
    RLe(call.runs[2].result.objective_value, call.runs[1].result.objective_value)

(***************************************************************************)
(* C30: a pathway id that matches no pathway                               *)
(***************************************************************************)
\* The request names a pathway id, the id matches no pathway node of the
\* store, and no reaction ids are given besides
UnknownPathwayAsked ==
  /\ caller_config.pathway_id \notin {NoId, ""}
  /\ LET id == resolve_id(store, caller_config.pathway_id)
     IN  id = NoId \/ node(store, id).kind # "pathway"
  /\ caller_config.reaction_ids = 0

SimulationOps ==
  {"run_fba", "run_ode", "simulate_fba", "simulate_ode",
   "tool_simulate_fba", "tool_simulate_ode", "tool_simulate_whatif"}

\* The result of a run is an error with nothing in it
EmptyError(res) ==
  /\ res.status = "error"
  /\ \A f \in DOMAIN res \cap {"fluxes", "shadow_prices", "concentrations"} : res[f] = EmptyDict
  /\ "t" \in DOMAIN res => res.t = <<>>
  /\ "objective_value" \in DOMAIN res => IsNone(res.objective_value)

\* C30: a simulation requested for a pathway id that matches no pathway never
\* simulates other reactions: through MetabolicSimulator, through
\* MetaKG.simulate_fba / simulate_ode and through the MCP simulate_fba /
\* simulate_ode / simulate_whatif tools alike, the run reports status 'error'
\* with an empty payload instead of falling back to all reactions in the store.
C30_UnknownPathwaySimulatesNothing ==
  (UnknownPathwayAsked /\ call.op \in SimulationOps /\ call.runs # <<>>) =>
    /\ call.raised = ""
    /\ \A i \in DOMAIN call.runs :
         /\ call.runs[i].trace.rxn_ids = <<>>
         /\ EmptyError(call.runs[i].result)
    /\ IF call.op = "tool_simulate_whatif"
       THEN /\ call.result.baseline_status = "error" /\ call.result.perturbed_status = "error"
            /\ call.result.top_changes = {}
       ELSE EmptyError(call.result)


=============================================================================
